---- MODULE Spec2Model ----
(***************************************************************************)
(* Model of pjtools: the configuration object (BaseConfigurator and its    *)
(* format adapters), its merge and its dumpers, and the Registry.          *)
(*                                                                         *)
(* Python objects with identity (configurator instances and the dict       *)
(* objects they hold) live in `heap`; everything else is a value.          *)
(***************************************************************************)
EXTENDS Integers, Sequences, FiniteSets, TLC

VARIABLES
    heap,   \* the objects: heap[id] = [kind |-> "node" | "dict", f |-> its __dict__ / its items]
    cfg,    \* the caller's variables: cfg.A, cfg.B = id of the instance, 0 before construction
    pre,    \* the heap as it was before the last operation
    last,   \* the last operation: its name, arguments and return value
    nops,   \* number of operations performed
    fs,     \* the files: fs[filename] = the lines of the file
    stack,  \* the activations of PyConfigurator.fromfile, the innermost last
    result, \* what the last fromfile returned or raised
    reg,    \* the registries: reg[registry] = its _modules, name -> what is registered
    preReg, \* the registries as they were before the last operation
    merges, \* the merges the caller has made: pairs <<target, source>> of variables
    singleton, \* the _singleton_instance attribute of each class that has its own
    made,      \* made[cls] = what the last singleton construction of cls returned (an id),
               \* 0 when there is none since the last reset_singleton_instance
    preMade,   \* made as it was before the last operation
    db,     \* the database file: its committed tables
    conn,   \* the SQLiteDatabase object: constructed or not, connection open or None,
            \* and the tables as the connection sees them
    preDb,  \* db and conn as they were before the last operation
    life    \* the last of "new", "connect", "close" made on the wrapper

vars == <<heap, cfg, pre, last, nops, fs, stack, result, reg, preReg, merges,
          singleton, made, preMade, db, conn, preDb, life>>
fileVars == <<fs, stack, result>>
regVars == <<reg, preReg>>
classVars == <<singleton, made, preMade>>
dbVars == <<db, conn, preDb, life>>

----------------------------------------------------------------------------
(* Values.  Every value is a record of the same shape:                     *)
(*   t = "none" | "int" | "str" | "bool" | "list" | "dict" | "dictref" |   *)
(*       "node" | "method"                                                 *)
(* "dict" is a dict literal/value (d = its items), "dictref" and "node"    *)
(* are references to heap objects (i = id), "method" is a class attribute. *)

NoItems == [k \in {} |-> 0]

NoneV == [t |-> "none", i |-> 0, s |-> "", d |-> NoItems, l |-> <<>>]
IntV(n) == [t |-> "int", i |-> n, s |-> "", d |-> NoItems, l |-> <<>>]
StrV(str) == [t |-> "str", i |-> 0, s |-> str, d |-> NoItems, l |-> <<>>]
BoolV(b) == [t |-> "bool", i |-> IF b THEN 1 ELSE 0, s |-> "", d |-> NoItems, l |-> <<>>]
ListV(seq) == [t |-> "list", i |-> 0, s |-> "", d |-> NoItems, l |-> seq]
DictV(items) == [t |-> "dict", i |-> 0, s |-> "", d |-> items, l |-> <<>>]
DictRef(id) == [t |-> "dictref", i |-> id, s |-> "", d |-> NoItems, l |-> <<>>]
NodeV(id) == [t |-> "node", i |-> id, s |-> "", d |-> NoItems, l |-> <<>>]
MethodV(name) == [t |-> "method", i |-> 0, s |-> name, d |-> NoItems, l |-> <<>>]

\* isinstance(value, dict)
IsDict(v) == v.t \in {"dict", "dictref"}
\* isinstance(value, BaseConfigurator)
IsNode(v) == v.t = "node"
\* a scalar that is not None
IsScalar(v) == v.t \in {"int", "str", "bool"}
\* Python truthiness of a constructor argument (None, {} and [] are falsy)
Truthy(v) ==
    CASE v.t = "none" -> FALSE
      [] v.t = "dict" -> DOMAIN v.d # {}
      [] v.t = "list" -> Len(v.l) > 0
      [] OTHER -> TRUE

\* the items of a dict value, wherever it lives
Items(h, v) == IF v.t = "dictref" THEN h[v.i].f ELSE v.d

\* self.__dict__[key] = value
Put(h, id, key, value) == [h EXCEPT ![id].f = (key :> value) @@ @]

\* a value as a caller sees it: a held dict object is seen as its items
Freeze(h, v) == IF v.t = "dictref" THEN DictV(h[v.i].f) ELSE v

----------------------------------------------------------------------------
(* BaseConfigurator.__init__ and _load_from_dict                            *)

RECURSIVE BaseConfigurator(_, _), LoadFromDictKeys(_, _, _, _)

\* for key, value in config_dict.items(): the loop over the keys ks still to do
LoadFromDictKeys(h, id, items, ks) ==
    IF ks = {} THEN h
    ELSE LET key == CHOOSE k \in ks : TRUE
             value == items[key]
         IN IF IsDict(value)
            THEN LET r == BaseConfigurator(h, value)
                 IN LoadFromDictKeys(Put(r.heap, id, key, NodeV(r.id)), id, items, ks \ {key})
            ELSE LoadFromDictKeys(Put(h, id, key, value), id, items, ks \ {key})

\* _load_from_dict without the conversion of dict values
_load_from_dict_as_is(h, id, items, ks) ==
    [h EXCEPT ![id].f = [k \in ks |-> items[k]] @@ @]

_load_from_dict(h, id, items, ks) == LoadFromDictKeys(h, id, items, ks)

\* BaseConfigurator(config_dict): the new heap and the id of the new instance
BaseConfigurator(h, config_dict) ==
    LET id == Len(h) + 1
        h1 == Append(h, [kind |-> "node", f |-> NoItems])
        h2 == IF Truthy(config_dict)
              THEN _load_from_dict(h1, id, Items(h1, config_dict), DOMAIN Items(h1, config_dict))
              ELSE h1
    IN [heap |-> Put(h2, id, "_is_initialized", BoolV(TRUE)), id |-> id]

\* PyConfigurator(config_dict, base_files)
PyConfigurator(h, config_dict, base_files) ==
    LET r == BaseConfigurator(h, config_dict)
    IN IF Truthy(base_files)
       THEN [heap |-> Put(r.heap, r.id, "_base_", base_files), id |-> r.id]
       ELSE r

----------------------------------------------------------------------------
(* BaseConfigurator.merge                                                   *)

\* dict.update: the incoming items overwrite, the others are kept
Update(old, new) == new @@ old

RECURSIVE merge(_, _, _)

\* MergeField with a field that is present never overridden
MergeFieldKeepsMine(h, self, other, key) ==
    LET value == h[other].f[key]
    IN IF value.t = "none" THEN h
       ELSE IF key \notin DOMAIN h[self].f THEN Put(h, self, key, value)
       ELSE LET mine == h[self].f[key]
            IN IF IsDict(mine) /\ IsDict(value)
               THEN [h EXCEPT ![mine.i].f = Update(@, Items(h, value))]
               ELSE IF IsNode(mine) /\ IsNode(value)
               THEN merge(h, mine.i, value.i)
               ELSE h

\* MergeField with a nested instance replaced by the incoming one
MergeFieldWholesale(h, self, other, key) ==
    LET value == h[other].f[key]
    IN IF value.t = "none" THEN h
       ELSE IF key \notin DOMAIN h[self].f THEN Put(h, self, key, value)
       ELSE LET mine == h[self].f[key]
            IN IF IsDict(mine) /\ IsDict(value)
               THEN [h EXCEPT ![mine.i].f = Update(@, Items(h, value))]
               ELSE Put(h, self, key, value)

\* MergeField without the test for None
MergeFieldNoneOverrides(h, self, other, key) ==
    LET value == h[other].f[key]
    IN IF key \notin DOMAIN h[self].f THEN Put(h, self, key, value)
       ELSE LET mine == h[self].f[key]
            IN IF IsDict(mine) /\ IsDict(value)
               THEN [h EXCEPT ![mine.i].f = Update(@, Items(h, value))]
               ELSE IF IsNode(mine) /\ IsNode(value)
               THEN merge(h, mine.i, value.i)
               ELSE Put(h, self, key, value)

\* MergeField that only updates the fields the target already has
MergeFieldNoNewKeys(h, self, other, key) ==
    LET value == h[other].f[key]
    IN IF value.t = "none" THEN h
       ELSE IF key \notin DOMAIN h[self].f THEN h
       ELSE LET mine == h[self].f[key]
            IN IF IsDict(mine) /\ IsDict(value)
               THEN [h EXCEPT ![mine.i].f = Update(@, Items(h, value))]
               ELSE IF IsNode(mine) /\ IsNode(value)
               THEN merge(h, mine.i, value.i)
               ELSE Put(h, self, key, value)

\* MergeField that assigns an incoming raw mapping over the raw mapping held
MergeFieldDictReplaced(h, self, other, key) ==
    LET value == h[other].f[key]
    IN IF value.t = "none" THEN h
       ELSE IF key \notin DOMAIN h[self].f THEN Put(h, self, key, value)
       ELSE LET mine == h[self].f[key]
            IN IF IsNode(mine) /\ IsNode(value)
               THEN merge(h, mine.i, value.i)
               ELSE Put(h, self, key, value)

\* the body of the loop of merge, for one (key, value) of other_config.__dict__
MergeField(h, self, other, key) ==
    LET value == h[other].f[key]
    IN IF value.t = "none" THEN h
       ELSE IF key \notin DOMAIN h[self].f THEN Put(h, self, key, value)
       ELSE LET mine == h[self].f[key]
            IN IF IsDict(mine) /\ IsDict(value)
               THEN [h EXCEPT ![mine.i].f = Update(@, Items(h, value))]
               ELSE IF IsNode(mine) /\ IsNode(value)
               THEN merge(h, mine.i, value.i)
               ELSE Put(h, self, key, value)

\* for key, value in other_config.__dict__.items(): the keys ks still to do
RECURSIVE MergeKeys(_, _, _, _)
MergeKeys(h, self, other, ks) ==
    IF ks = {} THEN h
    ELSE LET key == CHOOSE k \in ks : TRUE
         IN MergeKeys(MergeField(h, self, other, key), self, other, ks \ {key})

merge(h, self, other) == MergeKeys(h, self, other, DOMAIN h[other].f)

----------------------------------------------------------------------------
(* BaseConfigurator.to_dict, __getitem__, __getattr__, __setitem__,         *)
(* __setattr__                                                              *)

RECURSIVE to_dict(_, _)
to_dict(h, id) ==
    LET f == h[id].f
    IN [key \in DOMAIN f \ {"_is_initialized"} |->
            IF IsNode(f[key]) THEN DictV(to_dict(h, f[key].i)) ELSE Freeze(h, f[key])]

__getitem__(h, id, key) ==
    IF key \in DOMAIN h[id].f THEN h[id].f[key] ELSE NoneV

\* the attributes every instance finds on its class
ClassAttributes ==
    {"merge", "to_dict", "print", "fromfile", "dumpfile", "reset_singleton_instance",
     "_merge_from_dict", "_load_from_dict", "_is_initialized"}

__getattr__(h, id, key) ==
    IF key \in DOMAIN h[id].f THEN h[id].f[key] ELSE NoneV

\* obj.key: the instance __dict__, then the class, and only then __getattr__
GetAttr(h, id, key) ==
    IF key \in DOMAIN h[id].f THEN h[id].f[key]
    ELSE IF key \in ClassAttributes THEN MethodV(key)
    ELSE __getattr__(h, id, key)

\* self.__dict__[key] = value; a dict argument is stored as the object it is
__setitem__(h, id, key, value) ==
    IF value.t = "dict"
    THEN Put(Append(h, [kind |-> "dict", f |-> value.d]), id, key, DictRef(Len(h) + 1))
    ELSE Put(h, id, key, value)

__setattr__(h, id, key, value) == __setitem__(h, id, key, value)

----------------------------------------------------------------------------
(* The singleton mode: __new__, __init__ with singleton=True,               *)
(* reset_singleton_instance, _merge_from_dict                               *)

\* BaseConfigurator and two of its subclasses: one that inherits __init__ and
\* one that defines its own, without the parameter singleton
Classes == {"BaseConfigurator", "JSONConfigurator", "PyConfigurator"}
Inherits__init__ == {"BaseConfigurator", "JSONConfigurator"}

\* _singleton_instance = None; an instance is recorded with its class
NoInstance == [id |-> 0, cls |-> ""]
Instance(id, cls) == [id |-> id, cls |-> cls]

\* cls._singleton_instance: the attribute of the class itself, else the one
\* it inherits from BaseConfigurator
_singleton_instance(s, cls) ==
    IF cls \in DOMAIN s THEN s[cls] ELSE s["BaseConfigurator"]

isinstance(obj, cls) == obj.cls = cls \/ cls = "BaseConfigurator"

\* __new__(cls, singleton=True): the heap, the class attributes and the
\* instance returned
__new__(h, s, cls) ==
    IF _singleton_instance(s, cls).id = 0
    THEN LET obj == Instance(Len(h) + 1, cls)
         IN [heap |-> Append(h, [kind |-> "node", f |-> NoItems]),
             singleton |-> (cls :> obj) @@ s,
             obj |-> obj]
    ELSE [heap |-> h, singleton |-> s, obj |-> _singleton_instance(s, cls)]

\* _merge_from_dict: the loop over the keys ks still to do (an empty
\* config_dict returns at once, as the loop over no keys does)
RECURSIVE MergeFromDictKeys(_, _, _, _)
MergeFromDictKeys(h, id, items, ks) ==
    IF ks = {} THEN h
    ELSE LET key == CHOOSE k \in ks : TRUE
             value == items[key]
             h1 == IF IsDict(value)
                   THEN IF key \in DOMAIN h[id].f /\ IsNode(h[id].f[key])
                        THEN MergeFromDictKeys(h, h[id].f[key].i, value.d, DOMAIN value.d)
                        ELSE LET r == BaseConfigurator(h, value)
                             IN Put(r.heap, id, key, NodeV(r.id))
                   ELSE Put(h, id, key, value)
         IN MergeFromDictKeys(h1, id, items, ks \ {key})

_merge_from_dict(h, id, config_dict) ==
    IF Truthy(config_dict)
    THEN MergeFromDictKeys(h, id, config_dict.d, DOMAIN config_dict.d)
    ELSE h

\* BaseConfigurator.__init__(self, config_dict, singleton=True): the test is
\* made on the attribute of BaseConfigurator, whatever the class of self
__init__(h, s, id, config_dict) ==
    IF /\ s["BaseConfigurator"].id # 0
       /\ GetAttr(h, s["BaseConfigurator"].id, "_is_initialized") \notin {BoolV(FALSE), NoneV}
    THEN _merge_from_dict(h, id, config_dict)
    ELSE LET h1 == IF Truthy(config_dict)
                   THEN _load_from_dict(h, id, config_dict.d, DOMAIN config_dict.d)
                   ELSE h
         IN Put(h1, id, "_is_initialized", BoolV(TRUE))

\* reset_singleton_instance(cls): cls._singleton_instance = None
reset_singleton_instance(s, cls) == (cls :> NoInstance) @@ s

----------------------------------------------------------------------------
(* Registry.  _modules maps a name to what is registered under it; a       *)
(* registered class or function is written as its __name__.                *)

\* Registry.__init__: self._modules = {}
Registry == [name \in {} |-> ""]

Outcome(status, modules, ret) == [status |-> status, modules |-> modules, ret |-> ret]

\* _register without the test for a name that is taken
_register_overwrites(modules, name, module) ==
    LET _name == IF name.t = "none" THEN module ELSE name.s
    IN Outcome("ok", (_name :> module) @@ modules, module)

\* the decorator that register(name) returns, applied to module
_register(modules, name, module) ==
    LET _name == IF name.t = "none" THEN module ELSE name.s
    IN IF _name \in DOMAIN modules
       THEN Outcome("ValueError", modules, "")
       ELSE Outcome("ok", (_name :> module) @@ modules, module)

\* get that answers None for a name that is not registered
get_or_none(modules, name) ==
    IF name \notin DOMAIN modules
    THEN Outcome("ok", modules, "None")
    ELSE Outcome("ok", modules, modules[name])

\* Registry.get(name)
get(modules, name) ==
    IF name \notin DOMAIN modules
    THEN Outcome("KeyError", modules, "")
    ELSE Outcome("ok", modules, modules[name])

\* name in registry
__contains__(modules, name) == name \in DOMAIN modules

\* @registry.register(name) on each of the definitions of a module, in order
RECURSIVE Decorated(_, _)
Decorated(modules, definitions) ==
    IF definitions = <<>> THEN modules
    ELSE Decorated(_register(modules, StrV(definitions[1][1]), definitions[1][2]).modules,
                   Tail(definitions))

\* pjtools.registries: the two registries of the package, before anything
\* is registered
registries == [DUMPER_REGISTRY |-> Registry, CONFIGURATOR_REGISTRY |-> Registry]

\* the registries once pjtools.configurator is imported
DUMPER_REGISTRY ==
    Decorated(registries.DUMPER_REGISTRY,
              <<(<<"json", "json_dumper">>), (<<"yaml", "yaml_dumper">>), (<<"py", "py_dumper">>)>>)
CONFIGURATOR_REGISTRY ==
    Decorated(registries.CONFIGURATOR_REGISTRY,
              <<(<<"json", "JSONConfigurator">>), (<<"py", "PyConfigurator">>),
                (<<"yaml", "YAMLConfigurator">>)>>)

----------------------------------------------------------------------------
(* SQLiteDatabase.  The database file holds tables; a table is its columns *)
(* (name, declared type, constraints) and its rows by rowid; a row maps    *)
(* every column to a value (NoneV is NULL).  The connection sees `view`:   *)
(* the committed tables with the changes of its open transaction.          *)

NoTables == [name \in {} |-> 0]
NoRows == [rowid \in {} |-> 0]
Column(name, type, extra) == [name |-> name, type |-> type, extra |-> extra]
Table(cols, rows) == [cols |-> cols, rows |-> rows]
ColNames(table) == {table.cols[n].name : n \in 1..Len(table.cols)}

\* what a statement gives: the tables after it, or a sqlite3.Error
StmtOk(tables) == [ok |-> TRUE, tables |-> tables]
StmtError(tables) == [ok |-> FALSE, tables |-> tables]

\* the class attributes PYTHON_SQLITE_TYPE_MAP and SQLITE_VALID_TYPES; the
\* keys of the map are the types int, float, str and bytes
PYTHON_SQLITE_TYPE_MAP ==
    ("int" :> "INTEGER") @@ ("float" :> "REAL") @@ ("str" :> "TEXT") @@ ("bytes" :> "BLOB")
SQLITE_VALID_TYPES == {"INTEGER", "REAL", "TEXT", "BLOB", "NULL"}

\* a schema entry: a Python type, a string, or a tuple whose first component
\* is one of the two and whose second is the constraints
TypeEntry(name) == [kind |-> "type", py |-> TRUE, name |-> name, extra |-> ""]
StrEntry(str) == [kind |-> "str", py |-> FALSE, name |-> str, extra |-> ""]
TupleEntry(first, extra) == [kind |-> "tuple", py |-> first.py, name |-> first.name, extra |-> extra]

\* str.upper() on the strings used as type names
upper(str) ==
    CASE str \in {"integer", "Integer", "INTEGER"} -> "INTEGER"
      [] str \in {"real", "REAL"} -> "REAL"
      [] str \in {"text", "TEXT"} -> "TEXT"
      [] str \in {"blob", "BLOB"} -> "BLOB"
      [] str \in {"null", "NULL"} -> "NULL"
      [] str \in {"varchar", "VARCHAR"} -> "VARCHAR"
      [] OTHER -> str

\* PYTHON_SQLITE_TYPE_MAP.get(dtype, 'TEXT'): a string is not a key of the map
MapGet(py, name) ==
    IF py /\ name \in DOMAIN PYTHON_SQLITE_TYPE_MAP THEN PYTHON_SQLITE_TYPE_MAP[name] ELSE "TEXT"

\* the column definition create_table makes of one schema entry
column_definition(name, dtype) ==
    CASE dtype.kind = "tuple" -> Column(name, MapGet(dtype.py, dtype.name), dtype.extra)
      [] dtype.kind = "type" -> Column(name, MapGet(dtype.py, dtype.name), "")
      [] OTHER -> Column(name, IF upper(dtype.name) \in SQLITE_VALID_TYPES
                               THEN upper(dtype.name) ELSE "TEXT", "")

\* CREATE TABLE IF NOT EXISTS name (columns); no columns is a syntax error
SqlCreateTable(tables, name, columns) ==
    IF columns = <<>> THEN StmtError(tables)
    ELSE IF name \in DOMAIN tables THEN StmtOk(tables)
    ELSE StmtOk((name :> Table(columns, NoRows)) @@ tables)

\* DROP TABLE [IF EXISTS] name
SqlDropTable(tables, name, if_exists) ==
    IF name \in DOMAIN tables
    THEN StmtOk([n \in DOMAIN tables \ {name} |-> tables[n]])
    ELSE IF if_exists THEN StmtOk(tables) ELSE StmtError(tables)

\* the column that is the rowid (INTEGER PRIMARY KEY), "" if there is none
RowidAlias(table) ==
    LET is == {n \in 1..Len(table.cols) :
                  table.cols[n].type = "INTEGER" /\ table.cols[n].extra = "PRIMARY KEY"}
    IN IF is = {} THEN "" ELSE table.cols[CHOOSE n \in is : TRUE].name

Max(S) == CHOOSE n \in S : \A m \in S : m <= n
Min(S) == CHOOSE n \in S : \A m \in S : n <= m
NextRowid(table) == IF DOMAIN table.rows = {} THEN 1 ELSE Max(DOMAIN table.rows) + 1

\* PRIMARY KEY columns hold no value twice (NULL excepted)
Unique(table) ==
    \A n \in 1..Len(table.cols) :
        table.cols[n].extra = "PRIMARY KEY" =>
            \A r1, r2 \in DOMAIN table.rows :
                (r1 # r2 /\ table.rows[r1][table.cols[n].name].t # "none")
                    => table.rows[r1][table.cols[n].name] # table.rows[r2][table.cols[n].name]

\* INSERT INTO name (keys) VALUES (?, ...) with the values of data
SqlInsert(tables, name, data) ==
    IF name \notin DOMAIN tables \/ DOMAIN data = {} \/ ~(DOMAIN data \subseteq ColNames(tables[name]))
    THEN StmtError(tables)
    ELSE LET table == tables[name]
             alias == RowidAlias(table)
             rowid == IF alias \in DOMAIN data /\ data[alias].t = "int"
                      THEN data[alias].i ELSE NextRowid(table)
             row == [c \in ColNames(table) |->
                        IF c = alias THEN IntV(rowid)
                        ELSE IF c \in DOMAIN data THEN data[c] ELSE NoneV]
             new == Table(table.cols, (rowid :> row) @@ table.rows)
         IN IF rowid \in DOMAIN table.rows \/ ~Unique(new)
            THEN StmtError(tables)
            ELSE StmtOk([tables EXCEPT ![name] = new])

\* executemany: the statement for each tuple of values in turn; a tuple that
\* has not as many values as the first dict has keys is an error
RECURSIVE SqlInsertMany(_, _, _, _)
SqlInsertMany(tables, name, data_list, n) ==
    IF n > Len(data_list) THEN StmtOk(tables)
    ELSE IF Cardinality(DOMAIN data_list[n]) # Cardinality(DOMAIN data_list[1])
    THEN StmtError(tables)
    ELSE LET r == SqlInsert(tables, name, data_list[n])
         IN IF r.ok THEN SqlInsertMany(r.tables, name, data_list, n + 1) ELSE r

\* WHERE k = ? AND ...: the comparison with NULL, on either side, is not true
Where(row, condition) ==
    \A k \in DOMAIN condition : condition[k].t # "none" /\ row[k] = condition[k]

\* strings that do not stay inside the quotes of f"{k}='{v}'"
Apostrophe == "O'Brien"
Injection == "x' OR 'a'='a"

\* WHERE k='v' AND ...: str(v) between quotes is compared as text (with a
\* number where the column holds one); the Injection closes the quotes and
\* adds an alternative that is true of every row
EqualsLiteral(value, v) ==
    CASE v.t = "none" -> value = StrV("None")
      [] OTHER -> value = v
WhereLiteral(row, condition) ==
    \/ \E k \in DOMAIN condition : condition[k] = StrV(Injection)
    \/ \A k \in DOMAIN condition : EqualsLiteral(row[k], condition[k])

\* the errors of a WHERE clause: no condition at all, an unknown column
WhereError(table, condition) ==
    DOMAIN condition = {} \/ ~(DOMAIN condition \subseteq ColNames(table))
\* and for the quoted form also an apostrophe in a value
WhereLiteralError(table, condition) ==
    \/ WhereError(table, condition)
    \/ \E k \in DOMAIN condition : condition[k] = StrV(Apostrophe)

\* DELETE FROM name WHERE (c1) OR (c2) ..., every ci in the quoted form
SqlDelete(tables, name, conditions) ==
    IF \/ name \notin DOMAIN tables
       \/ conditions = <<>>
       \/ \E n \in 1..Len(conditions) : WhereLiteralError(tables[name], conditions[n])
    THEN StmtError(tables)
    ELSE LET table == tables[name]
             gone == {r \in DOMAIN table.rows :
                         \E n \in 1..Len(conditions) : WhereLiteral(table.rows[r], conditions[n])}
         IN StmtOk([tables EXCEPT ![name] =
                       Table(table.cols, [r \in DOMAIN table.rows \ gone |-> table.rows[r]])])

\* UPDATE name SET k = ?, ... WHERE k = ? AND ...
SqlUpdate(tables, name, record, condition) ==
    IF name \notin DOMAIN tables THEN StmtError(tables)
    ELSE LET table == tables[name]
             alias == RowidAlias(table)
             hit == {r \in DOMAIN table.rows : Where(table.rows[r], condition)}
             set(row) == [c \in ColNames(table) |-> IF c \in DOMAIN record THEN record[c] ELSE row[c]]
             rowid(r) == IF r \in hit /\ alias \in DOMAIN record THEN record[alias].i ELSE r
             of(n) == CHOOSE r \in DOMAIN table.rows : rowid(r) = n
             new == Table(table.cols,
                          [n \in {rowid(r) : r \in DOMAIN table.rows} |->
                              IF of(n) \in hit THEN set(table.rows[of(n)]) ELSE table.rows[of(n)]])
         IN IF \/ DOMAIN record = {} \/ ~(DOMAIN record \subseteq ColNames(table))
               \/ WhereError(table, condition)
            THEN StmtError(tables)
            ELSE IF \/ \E r1, r2 \in DOMAIN table.rows : r1 # r2 /\ rowid(r1) = rowid(r2)
                    \/ ~Unique(new)
            THEN StmtError(tables)
            ELSE StmtOk([tables EXCEPT ![name] = new])

\* the rows of a result, in the order of their rowids, each as a dict
RECURSIVE RowsInOrder(_, _)
RowsInOrder(rows, ids) ==
    IF ids = {} THEN <<>>
    ELSE <<DictV(rows[Min(ids)])>> \o RowsInOrder(rows, ids \ {Min(ids)})

\* SELECT * FROM name [WHERE k = ? AND ...]: conditions is NoneV or a dict
SqlSelect(tables, name, conditions) ==
    IF name \notin DOMAIN tables THEN [ok |-> FALSE, rows |-> <<>>]
    ELSE LET table == tables[name]
         IN IF conditions.t = "none"
            THEN [ok |-> TRUE, rows |-> RowsInOrder(table.rows, DOMAIN table.rows)]
            ELSE IF WhereError(table, conditions.d)
            THEN [ok |-> FALSE, rows |-> <<>>]
            ELSE [ok |-> TRUE,
                  rows |-> RowsInOrder(table.rows,
                              {r \in DOMAIN table.rows : Where(table.rows[r], conditions.d)})]

\* the wrapper object: whether it is constructed, its attribute connection
\* (open or None) and what the connection sees
Wrapper(obj, open, view) == [obj |-> obj, open |-> open, view |-> view]
Cursor == [t |-> "cursor", i |-> 0, s |-> "", d |-> NoItems, l |-> <<>>]

\* what a method gives: the committed tables, the wrapper, what it returns,
\* the exception that reaches the caller ("ok": none) and whether a
\* sqlite3.Error was caught
Done(tables, wrapper, ret, status, caught) ==
    [db |-> tables, conn |-> wrapper, ret |-> ret, status |-> status, caught |-> caught]

\* SQLiteDatabase(db_cfg): self.connection = None; self.connect()
SQLiteDatabase(tables) == Done(tables, Wrapper(TRUE, TRUE, tables), NoneV, "ok", FALSE)

\* connect(): a new connection to the file; one that was open is dropped
\* with its transaction
connect(tables, w) == Done(tables, Wrapper(TRUE, TRUE, tables), NoneV, "ok", FALSE)

\* close() that closes the connection and keeps the attribute
close_keeps_connection(tables, w) == Done(tables, Wrapper(TRUE, w.open, tables), NoneV, "ok", FALSE)

\* close(): if self.connection: close it; finally self.connection = None
close(tables, w) == Done(tables, Wrapper(TRUE, FALSE, tables), NoneV, "ok", FALSE)

\* execute() that does not roll back when the statement fails
execute_without_rollback(tables, w, stmt) ==
    IF ~w.open THEN Done(tables, w, NoneV, "AttributeError", FALSE)
    ELSE IF stmt.ok
    THEN Done(stmt.tables, Wrapper(TRUE, TRUE, stmt.tables), Cursor, "ok", FALSE)
    ELSE Done(tables, Wrapper(TRUE, TRUE, stmt.tables), NoneV, "ok", TRUE)

\* execute(query, params): stmt is what the statement gives on the view of
\* the connection; commit and return the cursor, or rollback and return None
execute(tables, w, stmt) ==
    IF ~w.open THEN Done(tables, w, NoneV, "AttributeError", FALSE)
    ELSE IF stmt.ok
    THEN Done(stmt.tables, Wrapper(TRUE, TRUE, stmt.tables), Cursor, "ok", FALSE)
    ELSE Done(tables, Wrapper(TRUE, TRUE, tables), NoneV, "ok", TRUE)

\* the schema entries as column definitions, in the order of the dict
RECURSIVE Columns(_, _)
Columns(schema, n) ==
    IF n > Len(schema) THEN <<>>
    ELSE <<column_definition(schema[n][1], schema[n][2])>> \o Columns(schema, n + 1)

create_table(tables, w, table_name, schema) ==
    execute(tables, w, SqlCreateTable(w.view, table_name, Columns(schema, 1)))

drop_table(tables, w, table_name, if_exists) ==
    execute(tables, w, SqlDropTable(w.view, table_name, if_exists))

insert(tables, w, table_name, data) ==
    execute(tables, w, SqlInsert(w.view, table_name, data))

\* data_list[0] of an empty list raises IndexError before execute is called
inserts(tables, w, table_name, data_list) ==
    IF data_list = <<>> THEN Done(tables, w, NoneV, "IndexError", FALSE)
    ELSE execute(tables, w, SqlInsertMany(w.view, table_name, data_list, 1))

delete(tables, w, table_name, condition) ==
    execute(tables, w, SqlDelete(w.view, table_name, <<condition>>))

deletes(tables, w, table_name, conditions) ==
    execute(tables, w, SqlDelete(w.view, table_name, conditions))

update(tables, w, table_name, record, condition) ==
    execute(tables, w, SqlUpdate(w.view, table_name, record, condition))

\* the loop of updates with the pairs taken last to first
RECURSIVE UpdateEachLastFirst(_, _, _, _, _)
UpdateEachLastFirst(view, table_name, records, conditions, n) ==
    IF n > Len(records) \/ n > Len(conditions) THEN StmtOk(view)
    ELSE LET rest == UpdateEachLastFirst(view, table_name, records, conditions, n + 1)
             r == SqlUpdate(rest.tables, table_name, records[n], conditions[n])
         IN IF rest.ok /\ r.ok THEN r ELSE StmtError(rest.tables)

\* the loop of updates over zip(records, conditions): the statements in
\* turn on the view, up to the first that fails
RECURSIVE UpdateEach(_, _, _, _, _)
UpdateEach(view, table_name, records, conditions, n) ==
    IF n > Len(records) \/ n > Len(conditions) THEN StmtOk(view)
    ELSE LET r == SqlUpdate(view, table_name, records[n], conditions[n])
         IN IF r.ok THEN UpdateEach(r.tables, table_name, records, conditions, n + 1)
            ELSE StmtError(view)

\* updates(): the statements, then commit; a sqlite3.Error is printed and
\* what the earlier statements changed stays in the open transaction
updates(tables, w, table_name, records, conditions) ==
    IF ~w.open THEN Done(tables, w, NoneV, "AttributeError", FALSE)
    ELSE LET r == UpdateEach(w.view, table_name, records, conditions, 1)
         IN IF r.ok THEN Done(r.tables, Wrapper(TRUE, TRUE, r.tables), NoneV, "ok", FALSE)
            ELSE Done(tables, Wrapper(TRUE, TRUE, r.tables), NoneV, "ok", TRUE)

\* select(): the rows as dicts, [] when a sqlite3.Error is caught
select(tables, w, table_name, conditions) ==
    IF ~w.open THEN Done(tables, w, NoneV, "AttributeError", FALSE)
    ELSE LET r == SqlSelect(w.view, table_name, conditions)
         IN Done(tables, w, ListV(r.rows), "ok", ~r.ok)

\* selects(): one list for each conditions of conditions_list, in order
RECURSIVE SelectEach(_, _, _, _)
SelectEach(view, table_name, conditions_list, n) ==
    IF n > Len(conditions_list) THEN <<>>
    ELSE <<ListV(SqlSelect(view, table_name, conditions_list[n]).rows)>>
         \o SelectEach(view, table_name, conditions_list, n + 1)

selects(tables, w, table_name, conditions_list) ==
    IF ~w.open /\ conditions_list # <<>> THEN Done(tables, w, NoneV, "AttributeError", FALSE)
    ELSE Done(tables, w, ListV(SelectEach(w.view, table_name, conditions_list, 1)), "ok",
              \E n \in 1..Len(conditions_list) : ~SqlSelect(w.view, table_name, conditions_list[n]).ok)

----------------------------------------------------------------------------
(* Files.  A file is a sequence of lines [ind, key, toks]: toks is the     *)
(* token sequence of a JSON or Python literal, key the name left of it     *)
(* (the assigned name in a Python file, the mapping key in a YAML file)    *)
(* and ind the indentation of a YAML line.                                  *)

Tok(kind, int, str) == [k |-> kind, i |-> int, s |-> str]
Line(ind, key, toks) == [ind |-> ind, key |-> key, toks |-> toks]

\* the literals of the two syntaxes: json.dump / json.load, repr / exec
NullTok(syn) == IF syn = "py" THEN "None" ELSE "null"
TrueTok(syn) == IF syn = "py" THEN "True" ELSE "true"
FalseTok(syn) == IF syn = "py" THEN "False" ELSE "false"

\* the keys of a dict in the order they are written
RECURSIVE KeysSeq(_)
KeysSeq(ks) ==
    IF ks = {} THEN <<>>
    ELSE LET key == CHOOSE k \in ks : TRUE IN <<key>> \o KeysSeq(ks \ {key})

\* json.dump(value) and repr(value) as a token sequence
RECURSIVE Encode(_, _), EncodeItems(_, _, _), EncodeElems(_, _, _)
Encode(v, syn) ==
    CASE v.t = "none" -> <<Tok(NullTok(syn), 0, "")>>
      [] v.t = "bool" -> <<Tok(IF v.i = 1 THEN TrueTok(syn) ELSE FalseTok(syn), 0, "")>>
      [] v.t = "int" -> <<Tok("num", v.i, "")>>
      [] v.t = "str" -> <<Tok("str", 0, v.s)>>
      [] v.t = "list" -> <<Tok("[", 0, "")>> \o EncodeElems(v.l, 1, syn) \o <<Tok("]", 0, "")>>
      [] v.t = "dict" -> <<Tok("{", 0, "")>> \o EncodeItems(v.d, KeysSeq(DOMAIN v.d), syn)
                                             \o <<Tok("}", 0, "")>>
EncodeItems(d, ks, syn) ==
    IF ks = <<>> THEN <<>>
    ELSE <<Tok("str", 0, Head(ks)), Tok(":", 0, "")>> \o Encode(d[Head(ks)], syn)
         \o (IF Len(ks) > 1 THEN <<Tok(",", 0, "")>> ELSE <<>>)
         \o EncodeItems(d, Tail(ks), syn)
EncodeElems(l, n, syn) ==
    IF n > Len(l) THEN <<>>
    ELSE Encode(l[n], syn)
         \o (IF n < Len(l) THEN <<Tok(",", 0, "")>> ELSE <<>>)
         \o EncodeElems(l, n + 1, syn)

\* json.load and the evaluation of a Python literal: the value that starts
\* at toks[pos] and the position after it
RECURSIVE Decode(_, _, _), DecodeItems(_, _, _, _), DecodeElems(_, _, _, _)
Decode(toks, pos, syn) ==
    LET tok == toks[pos]
    IN CASE tok.k = NullTok(syn) -> [v |-> NoneV, pos |-> pos + 1]
         [] tok.k = TrueTok(syn) -> [v |-> BoolV(TRUE), pos |-> pos + 1]
         [] tok.k = FalseTok(syn) -> [v |-> BoolV(FALSE), pos |-> pos + 1]
         [] tok.k = "num" -> [v |-> IntV(tok.i), pos |-> pos + 1]
         [] tok.k = "str" -> [v |-> StrV(tok.s), pos |-> pos + 1]
         [] tok.k = "[" -> DecodeElems(toks, pos + 1, <<>>, syn)
         [] tok.k = "{" -> DecodeItems(toks, pos + 1, NoItems, syn)
DecodeItems(toks, pos, acc, syn) ==
    IF toks[pos].k = "}" THEN [v |-> DictV(acc), pos |-> pos + 1]
    ELSE IF toks[pos].k = "," THEN DecodeItems(toks, pos + 1, acc, syn)
    ELSE LET r == Decode(toks, pos + 2, syn)
         IN DecodeItems(toks, r.pos, (toks[pos].s :> r.v) @@ acc, syn)
DecodeElems(toks, pos, acc, syn) ==
    IF toks[pos].k = "]" THEN [v |-> ListV(acc), pos |-> pos + 1]
    ELSE IF toks[pos].k = "," THEN DecodeElems(toks, pos + 1, acc, syn)
    ELSE LET r == Decode(toks, pos, syn)
         IN DecodeElems(toks, r.pos, Append(acc, r.v), syn)

\* json_dumper: the whole mapping as one JSON text
json_dumper(data) == <<Line(0, "", Encode(DictV(data), "json"))>>

\* json.load(f)
json_load(file) == Decode(file[1].toks, 1, "json").v

\* py_dumper: one line `key = repr(value)` for each item
RECURSIVE PyLines(_, _)
PyLines(data, ks) ==
    IF ks = <<>> THEN <<>>
    ELSE <<Line(0, Head(ks), Encode(data[Head(ks)], "py"))>> \o PyLines(data, Tail(ks))

py_dumper(data) == PyLines(data, KeysSeq(DOMAIN data))

\* yaml.dump of a mapping in block style: `key: scalar`, or `key:` followed
\* by the nested mapping indented; an empty mapping is written `{}`
RECURSIVE YamlLines(_, _, _)
YamlLines(data, ks, ind) ==
    IF ks = <<>> THEN <<>>
    ELSE LET v == data[Head(ks)]
         IN (IF v.t = "dict" /\ DOMAIN v.d # {}
             THEN <<Line(ind, Head(ks), <<>>)>> \o YamlLines(v.d, KeysSeq(DOMAIN v.d), ind + 2)
             ELSE <<Line(ind, Head(ks), Encode(v, "yaml"))>>)
            \o YamlLines(data, Tail(ks), ind)

yaml_dumper(data) ==
    IF DOMAIN data = {} THEN <<Line(0, "", Encode(DictV(data), "yaml"))>>
    ELSE YamlLines(data, KeysSeq(DOMAIN data), 0)

\* yaml.safe_load of a block mapping: the lines from pos on that are indented
\* by ind, each with the block nested below it
RECURSIVE YamlBlock(_, _, _, _)
YamlBlock(file, pos, ind, acc) ==
    IF pos > Len(file) \/ file[pos].ind < ind THEN [v |-> DictV(acc), pos |-> pos]
    ELSE IF file[pos].toks # <<>>
    THEN YamlBlock(file, pos + 1, ind,
                   (file[pos].key :> Decode(file[pos].toks, 1, "yaml").v) @@ acc)
    ELSE LET r == YamlBlock(file, pos + 1, file[pos + 1].ind, NoItems)
         IN YamlBlock(file, r.pos, ind, (file[pos].key :> r.v) @@ acc)

yaml_safe_load(file) ==
    IF file = <<>> THEN NoneV
    ELSE IF file[1].key = "" THEN Decode(file[1].toks, 1, "yaml").v
    ELSE YamlBlock(file, 1, 0, NoItems).v

\* the module namespace after executing the lines of a Python file
RECURSIVE ExecModule(_, _, _)
ExecModule(file, pos, ns) ==
    IF pos > Len(file) THEN ns
    ELSE ExecModule(file, pos + 1,
                    (file[pos].key :> Decode(file[pos].toks, 1, "py").v) @@ ns)

\* attribute_name.startswith('_'), for the names that occur
StartsWithUnderscore(name) == name \in {"_base_", "_is_initialized"}

\* PyConfigurator._load_python_config, given the file: (config_dict, base_files)
_load_python_config(file) ==
    LET ns == ExecModule(file, 1, NoItems)
    IN [config_dict |-> DictV([k \in {n \in DOMAIN ns : ~StartsWithUnderscore(n)} |-> ns[k]]),
        base_files |-> IF "_base_" \in DOMAIN ns THEN ns["_base_"] ELSE NoneV]

\* base_files as the list that fromfile iterates over
NormalizeBases(base_files) ==
    IF base_files.t = "none" THEN <<>>
    ELSE IF base_files.t # "list" THEN <<base_files>>
    ELSE base_files.l

\* BaseConfigurator.dumpfile: what the dumper registered for the format writes
dumpfile(h, id, format) ==
    LET data == to_dict(h, id)
    IN CASE format = "json" -> json_dumper(data)
         [] format = "yaml" -> yaml_dumper(data)
         [] format = "py" -> py_dumper(data)

----------------------------------------------------------------------------
(* The inputs.                                                              *)

MaxOps == 2
MaxRegOps == 3
MaxSingletonOps == 3
MaxDbOps == 3
\* the nested activations of fromfile that the interpreter allows
RecursionLimit == 5

\* every dict with keys among K and values among Vals
DictsOver(K, Vals) == UNION {[S -> Vals] : S \in SUBSET K}

\* dicts {a: .., b: ..}: a absent, None, a scalar or (at the top) a nested dict
SubDicts(scalars) ==
    {fa @@ fb : fa \in DictsOver({"a"}, scalars \cup {NoneV}),
                fb \in DictsOver({"b"}, scalars)}
TopDicts(scalars, top) ==
    {fa @@ fb : fa \in DictsOver({"a"}, top \cup {NoneV} \cup {DictV(d) : d \in SubDicts(scalars)}),
                fb \in DictsOver({"b"}, scalars)}

\* the example of the specification
ExampleBase ==
    ("a" :> IntV(1)) @@ ("b" :> DictV(("x" :> IntV(10)) @@ ("y" :> IntV(20))))
ExampleChild ==
    ("b" :> DictV(("y" :> IntV(21)) @@ ("z" :> IntV(30)))) @@ ("c" :> IntV(4))
\* three levels of nesting
DeepA ==
    ("a" :> DictV(("a" :> DictV(("a" :> IntV(1)) @@ ("b" :> IntV(1)) @@ ("x" :> IntV(1))))
                  @@ ("b" :> IntV(1))))
DeepB ==
    ("a" :> DictV(("a" :> DictV(("a" :> IntV(2)) @@ ("b" :> NoneV) @@ ("c" :> IntV(2))))
                  @@ ("c" :> NoneV)))

RawsA == {DictV(d) : d \in TopDicts({IntV(1)}, {IntV(1)}) \cup {ExampleBase, DeepA}}
RawsB == {DictV(d) : d \in TopDicts({IntV(2)}, {IntV(2), StrV("s")}) \cup {ExampleChild, DeepB}}

SetKeys == {"a", "merge"}
SetValues == {IntV(3), NoneV, DictV(("a" :> IntV(3)) @@ ("c" :> DictV("a" :> IntV(3))))}
GetKeys == {"a", "b", "merge"}
BaseFiles == {NoneV, ListV(<<>>), ListV(<<StrV("base.py")>>)}
RawsPy == {NoneV, DictV(NoItems), DictV(ExampleBase), DictV(DeepB),
           DictV("a" :> ListV(<<DictV("a" :> IntV(1))>>)),
           DictV(("merge" :> IntV(1)) @@ ("a" :> DictV("merge" :> DictV("a" :> IntV(1)))))}

Names == {"A", "B"}
\* raw mappings assigned to the field r of an instance, and what it is built from
RawDicts ==
    {DictV(("x" :> IntV(1)) @@ ("w" :> IntV(1))
           @@ ("y" :> DictV(("p" :> IntV(1)) @@ ("q" :> IntV(1))))),
     DictV(("x" :> IntV(2)) @@ ("z" :> IntV(2)) @@ ("y" :> DictV("p" :> IntV(2)))),
     DictV(("x" :> NoneV) @@ ("y" :> IntV(2))),
     DictV(NoItems)}
RawsRaw == {DictV(NoItems), DictV("a" :> IntV(1))}
\* config_dict arguments of the constructions with singleton=True
SingletonDicts ==
    {NoneV,
     DictV(("a" :> DictV("x" :> IntV(1))) @@ ("k" :> IntV(1))),
     DictV(("a" :> DictV("y" :> IntV(2))) @@ ("k" :> NoneV)),
     DictV("b" :> IntV(2))}
\* the table of the tests: test (id INTEGER PRIMARY KEY, name TEXT, age INTEGER)
TestColumns ==
    <<Column("id", "INTEGER", "PRIMARY KEY"), Column("name", "TEXT", ""),
      Column("age", "INTEGER", "")>>
Row(id, name, age) == ("id" :> IntV(id)) @@ ("name" :> name) @@ ("age" :> age)
\* the database file before the wrapper is constructed: new, with the empty
\* table, with the rows of the tests, with rows without an age and with an
\* apostrophe in the name
DbFiles ==
    {NoTables,
     "test" :> Table(TestColumns, NoRows),
     "test" :> Table(TestColumns, (1 :> Row(1, StrV("Alice"), IntV(25)))
                                  @@ (2 :> Row(2, StrV("Bob"), IntV(30)))),
     "test" :> Table(TestColumns, (1 :> Row(1, StrV("Alice"), IntV(25)))
                                  @@ (2 :> Row(2, StrV("None"), NoneV))
                                  @@ (3 :> Row(3, StrV(Apostrophe), IntV(30))))}
\* schema arguments of create_table, as the sequence of their items
Schemas ==
    {<<<<"name", TypeEntry("str")>>, <<"age", StrEntry("INTEGER")>>, <<"height", TypeEntry("float")>>>>,
     <<<<"id", TupleEntry(TypeEntry("int"), "PRIMARY KEY")>>, <<"name", TypeEntry("str")>>,
       <<"age", StrEntry("integer")>>>>,
     <<<<"id", TupleEntry(StrEntry("INTEGER"), "PRIMARY KEY")>>, <<"name", StrEntry("text")>>,
       <<"data", TypeEntry("bytes")>>>>,
     <<<<"a", StrEntry("varchar")>>, <<"b", TypeEntry("bool")>>, <<"c", StrEntry("null")>>>>,
     <<>>}
\* data arguments of insert and data_list arguments of inserts
InsertData ==
    {("name" :> StrV("Alice")) @@ ("age" :> IntV(25)),
     "name" :> StrV("Bob"),
     ("id" :> IntV(1)) @@ ("name" :> StrV("Bob")) @@ ("age" :> IntV(30)),
     NoItems}
InsertLists ==
    {<<("name" :> StrV("Alice")) @@ ("age" :> IntV(25)), ("name" :> StrV("Bob")) @@ ("age" :> IntV(30))>>,
     <<("id" :> IntV(3)) @@ ("name" :> StrV("Alice")), ("id" :> IntV(3)) @@ ("name" :> StrV("Bob"))>>,
     <<"name" :> StrV("Alice"), ("name" :> StrV("Bob")) @@ ("age" :> IntV(30))>>,
     <<>>}
\* condition arguments: of the tests, empty, with None, with an apostrophe
Conditions ==
    {"name" :> StrV("Alice"), "age" :> IntV(30),
     ("name" :> StrV("Bob")) @@ ("age" :> IntV(30)),
     NoItems, "age" :> NoneV, "name" :> NoneV}
QuotedConditions == {"name" :> StrV(Apostrophe), "name" :> StrV(Injection)}
ConditionLists ==
    {<<"name" :> StrV("Alice"), "name" :> StrV("Bob")>>,
     <<"age" :> IntV(30), "name" :> StrV("Alice")>>,
     <<"name" :> StrV("Alice"), NoItems>>,
     <<>>}
\* record arguments of update, records and conditions of updates
Records == {"age" :> IntV(26), "id" :> IntV(1), NoItems}
UpdateLists ==
    {[records |-> <<"age" :> IntV(26), "age" :> IntV(31)>>,
      conditions |-> <<"name" :> StrV("Alice"), "name" :> StrV("Bob")>>],
     [records |-> <<"age" :> IntV(26), "age" :> IntV(27)>>,
      conditions |-> <<"name" :> StrV("Alice"), "age" :> IntV(26)>>],
     [records |-> <<"age" :> IntV(26), "id" :> IntV(1)>>,
      conditions |-> <<"name" :> StrV("Alice"), "name" :> StrV("Bob")>>],
     [records |-> <<"age" :> IntV(26), "age" :> IntV(27)>>,
      conditions |-> <<"name" :> StrV("Alice")>>],
     [records |-> <<>>, conditions |-> <<>>]}

Formats == {"json", "yaml", "py"}
FileOf(format) ==
    CASE format = "json" -> "out.json" [] format = "yaml" -> "out.yaml" [] format = "py" -> "out.py"
      [] format = "toml" -> "out.toml"
\* a format and an extension that nothing is registered for
Unregistered == {"toml"}
\* Path(filename).suffix[1:], for the names that occur
Suffix(filename) ==
    CASE filename = "out.json" -> "json" [] filename = "out.yaml" -> "yaml"
      [] filename = "out.toml" -> "toml" [] OTHER -> "py"

\* mappings of JSON-representable values
RawsJSON ==
    {DictV(NoItems), DictV("a" :> IntV(1)), DictV("a" :> NoneV),
     DictV("a" :> DictV(("x" :> IntV(10)) @@ ("y" :> NoneV))),
     DictV("a" :> DictV(NoItems)), DictV("a" :> StrV("null")),
     DictV(("a" :> BoolV(TRUE)) @@ ("b" :> StrV("s"))),
     DictV("a" :> ListV(<<IntV(1), StrV("s")>>)),
     DictV(ExampleBase), DictV(ExampleChild), DictV(DeepA), DictV(DeepB),
     DictV("a" :> StrV("env:NAME")), DictV("a" :> DictV("url" :> StrV("env:NAME")))}

\* os.environ while the files are loaded, and the name that a value
\* 'env:<name>' refers to
environ == ("NAME" :> "127.0.0.1")
EnvName(str) == CASE str = "env:NAME" -> "NAME" [] OTHER -> ""

\* Python configuration files: the assignments of a mapping and, unless the
\* declaration is Undeclared, the assignment of _base_
Undeclared == [t |-> "undeclared", i |-> 0, s |-> "", d |-> NoItems, l |-> <<>>]
PySource(m, decl) ==
    py_dumper(m) \o (IF decl = Undeclared THEN <<>> ELSE <<Line(0, "_base_", Encode(decl, "py"))>>)

DefaultsFiles ==
    {PySource(m, Undeclared) :
        m \in {ExampleBase, ("a" :> IntV(1)) @@ ("b" :> IntV(1)),
               ("a" :> DictV(("a" :> IntV(1)) @@ ("b" :> IntV(1)))) @@ ("b" :> IntV(1))}}
OverrideFiles ==
    {PySource(m, decl) :
        m \in {"a" :> IntV(2), "a" :> DictV(("a" :> IntV(2)) @@ ("c" :> IntV(2))),
               ("a" :> NoneV) @@ ("b" :> IntV(2)), "b" :> DictV("y" :> IntV(5))},
        decl \in {Undeclared, ListV(<<StrV("defaults.py")>>), ListV(<<StrV("missing.py")>>)}}
ChildFiles ==
    {PySource(m, decl) :
        m \in {ExampleChild, "a" :> IntV(3), "a" :> NoneV,
               "a" :> DictV(("a" :> NoneV) @@ ("b" :> IntV(3))), NoItems},
        decl \in {Undeclared, NoneV, StrV("defaults.py"), ListV(<<StrV("defaults.py")>>),
                  ListV(<<StrV("defaults.py"), StrV("override.py")>>),
                  ListV(<<StrV("override.py"), StrV("defaults.py")>>),
                  ListV(<<StrV("defaults.py"), NoneV>>), ListV(<<StrV("missing.py")>>),
                  ListV(<<NoneV, StrV("missing.py")>>), ListV(<<StrV("missing.py"), NoneV>>)}}
PyFileSystems ==
    {("defaults.py" :> d) @@ ("override.py" :> o) @@ ("child.py" :> c) :
        d \in DefaultsFiles, o \in OverrideFiles, c \in ChildFiles}
PyFileNames == {"defaults.py", "override.py", "child.py", "missing.py"}
\* files whose declarations may name the file itself or each other
CyclicFileSystems ==
    {("defaults.py" :> PySource("a" :> IntV(1), d)) @@
     ("override.py" :> PySource("b" :> IntV(2), o)) @@
     ("child.py" :> PySource("c" :> IntV(3), c)) :
        d \in {Undeclared, ListV(<<StrV("defaults.py")>>), ListV(<<StrV("override.py")>>)},
        o \in {Undeclared, ListV(<<StrV("defaults.py")>>), ListV(<<StrV("missing.py")>>),
               ListV(<<NoneV>>)},
        c \in {StrV("child.py"), ListV(<<StrV("defaults.py")>>),
               ListV(<<StrV("override.py"), StrV("defaults.py")>>),
               ListV(<<StrV("defaults.py"), StrV("child.py")>>)}}
\* paths that do not resolve to an existing file
MissingNames == {"missing.py", "missing.json", "missing.yaml"}

\* a caller's registry: the names it registers under (None: the name of
\* what is registered), what it registers, the names it looks up
RegisterNames == {NoneV, StrV("example")}
Modules == {"ExampleModule", "OtherModule"}
LookupNames == {"example", "ExampleModule", "none_existent_module"}
ModuleV(name) == [t |-> "module", i |-> 0, s |-> name, d |-> NoItems, l |-> <<>>]

Op(op, tgt, src, key, arg, ret) ==
    [op |-> op, tgt |-> tgt, src |-> src, key |-> key, arg |-> arg, ret |-> ret]

----------------------------------------------------------------------------
(* The operations.                                                          *)

NoFiles == [name \in {} |-> <<>>]
Result(status, id) == [status |-> status, id |-> id]

InitObjects ==
    /\ heap = <<>>
    /\ cfg = [n \in Names |-> 0]
    /\ pre = <<>>
    /\ last = Op("none", "", "", "", NoneV, NoneV)
    /\ nops = 0
    /\ stack = <<>>
    /\ result = Result("none", 0)
    /\ reg = [DUMPER_REGISTRY |-> DUMPER_REGISTRY,
              CONFIGURATOR_REGISTRY |-> CONFIGURATOR_REGISTRY,
              TestRegistry |-> Registry]
    /\ preReg = reg
    /\ merges = {}
    /\ singleton = ("BaseConfigurator" :> NoInstance)
    /\ made = [cls \in Classes |-> 0]
    /\ preMade = made

\* no database in use
NoDatabase ==
    /\ db = NoTables
    /\ conn = Wrapper(FALSE, FALSE, NoTables)
    /\ preDb = [db |-> db, conn |-> conn]
    /\ life = ""

Init == InitObjects /\ fs = NoFiles /\ NoDatabase

\* name = BaseConfigurator(config_dict)
New(name, config_dict) ==
    /\ cfg[name] = 0
    /\ stack = <<>>
    /\ name = "B" => cfg["A"] # 0
    /\ LET r == BaseConfigurator(heap, config_dict)
       IN /\ heap' = r.heap
          /\ cfg' = [cfg EXCEPT ![name] = r.id]
    /\ pre' = heap
    /\ last' = Op("new", name, "", "", config_dict, NoneV)
    /\ UNCHANGED <<nops, fileVars, regVars, merges, classVars, dbVars>>

\* A = PyConfigurator(config_dict, base_files)
NewPy(config_dict, base_files) ==
    /\ cfg["A"] = 0
    /\ stack = <<>>
    /\ LET r == PyConfigurator(heap, config_dict, base_files)
       IN /\ heap' = r.heap
          /\ cfg' = [cfg EXCEPT !["A"] = r.id]
    /\ pre' = heap
    /\ last' = Op("newpy", "A", "", "", config_dict, base_files)
    /\ UNCHANGED <<nops, fileVars, regVars, merges, classVars, dbVars>>

\* tgt.merge(src)
Merge(tgt, src) ==
    /\ nops < MaxOps
    /\ cfg[tgt] # 0 /\ cfg[src] # 0
    /\ heap' = merge(heap, cfg[tgt], cfg[src])
    /\ pre' = heap
    /\ last' = Op("merge", tgt, src, "", NoneV, NoneV)
    /\ nops' = nops + 1
    /\ merges' = merges \cup {<<tgt, src>>}
    /\ UNCHANGED <<cfg, fileVars, regVars, classVars, dbVars>>

\* tgt[key] = value
SetItem(tgt, key, value) ==
    /\ nops < MaxOps
    /\ cfg[tgt] # 0
    /\ heap' = __setitem__(heap, cfg[tgt], key, value)
    /\ pre' = heap
    /\ last' = Op("setitem", tgt, "", key, value, NoneV)
    /\ nops' = nops + 1
    /\ UNCHANGED <<cfg, fileVars, regVars, merges, classVars, dbVars>>

\* tgt[key][key2] = value: tgt[key] is read, and the assignment is made on
\* what it returns (None and scalars do not support item assignment)
SetNested(tgt, key, key2, value) ==
    /\ nops < MaxOps
    /\ cfg[tgt] # 0
    /\ LET inner == __getitem__(heap, cfg[tgt], key)
       IN IF IsNode(inner)
          THEN /\ heap' = __setitem__(heap, inner.i, key2, value)
               /\ result' = Result("ok", 0)
          ELSE IF inner.t = "dictref"
          THEN /\ heap' = [heap EXCEPT ![inner.i].f = (key2 :> value) @@ @]
               /\ result' = Result("ok", 0)
          ELSE /\ result' = Result("TypeError", 0)
               /\ UNCHANGED heap
    /\ pre' = heap
    /\ last' = Op("setnested", tgt, key2, key, value, NoneV)
    /\ nops' = nops + 1
    /\ UNCHANGED <<cfg, fs, stack, regVars, merges, classVars, dbVars>>

\* tgt.key = value
SetAttr(tgt, key, value) ==
    /\ nops < MaxOps
    /\ cfg[tgt] # 0
    /\ heap' = __setattr__(heap, cfg[tgt], key, value)
    /\ pre' = heap
    /\ last' = Op("setattr", tgt, "", key, value, NoneV)
    /\ nops' = nops + 1
    /\ UNCHANGED <<cfg, fileVars, regVars, merges, classVars, dbVars>>

\* tgt[key]
GetItem(tgt, key) ==
    /\ nops < MaxOps
    /\ cfg[tgt] # 0
    /\ pre' = heap
    /\ last' = Op("getitem", tgt, "", key, NoneV, __getitem__(heap, cfg[tgt], key))
    /\ nops' = nops + 1
    /\ UNCHANGED <<heap, cfg, fileVars, regVars, merges, classVars, dbVars>>

\* tgt.key
GetAttrOp(tgt, key) ==
    /\ nops < MaxOps
    /\ cfg[tgt] # 0
    /\ pre' = heap
    /\ last' = Op("getattr", tgt, "", key, NoneV, GetAttr(heap, cfg[tgt], key))
    /\ nops' = nops + 1
    /\ UNCHANGED <<heap, cfg, fileVars, regVars, merges, classVars, dbVars>>

\* tgt.to_dict()
ToDict(tgt) ==
    /\ nops < MaxOps
    /\ cfg[tgt] # 0
    /\ pre' = heap
    /\ last' = Op("to_dict", tgt, "", "", NoneV, DictV(to_dict(heap, cfg[tgt])))
    /\ nops' = nops + 1
    /\ UNCHANGED <<heap, cfg, fileVars, regVars, merges, classVars, dbVars>>

\* tgt.dumpfile(FileOf(format), format)
DumpFile(tgt, format) ==
    /\ nops < MaxOps
    /\ stack = <<>>
    /\ cfg[tgt] # 0
    /\ LET dumper == get(reg["DUMPER_REGISTRY"], format)
       IN IF dumper.status # "ok"
          THEN /\ result' = Result(dumper.status, 0)
               /\ UNCHANGED fs
          ELSE IF dumper.ret = "None"
          THEN /\ result' = Result("ValueError", 0)
               /\ UNCHANGED fs
          ELSE /\ fs' = (FileOf(format) :> dumpfile(heap, cfg[tgt], format)) @@ fs
               /\ result' = Result("ok", 0)
    /\ pre' = heap
    /\ last' = Op("dumpfile", tgt, format, FileOf(format), NoneV, NoneV)
    /\ nops' = nops + 1
    /\ UNCHANGED <<heap, cfg, stack, regVars, merges, classVars, dbVars>>

\* JSONConfigurator.fromfile(filename), called by the caller (via = "") or
\* by AutoConfigurator.fromfile (via = "Auto")
JSONfromfile(via, filename) ==
    /\ nops < MaxOps
    /\ stack = <<>>
    /\ IF filename \notin DOMAIN fs
       THEN /\ result' = Result("FileNotFoundError", 0)
            /\ UNCHANGED heap
       ELSE LET r == BaseConfigurator(heap, json_load(fs[filename]))
            IN /\ heap' = r.heap
               /\ result' = Result("ok", r.id)
    /\ pre' = heap
    /\ last' = Op("fromfile", via, "json", filename, NoneV, NoneV)
    /\ nops' = nops + 1
    /\ UNCHANGED <<cfg, fs, stack, regVars, merges, classVars, dbVars>>

FromFileJSON(filename) == JSONfromfile("", filename)

\* YAMLConfigurator.fromfile(filename)
YAMLfromfile(via, filename) ==
    /\ nops < MaxOps
    /\ stack = <<>>
    /\ IF filename \notin DOMAIN fs
       THEN /\ result' = Result("FileNotFoundError", 0)
            /\ UNCHANGED heap
       ELSE LET r == BaseConfigurator(heap, yaml_safe_load(fs[filename]))
            IN /\ heap' = r.heap
               /\ result' = Result("ok", r.id)
    /\ pre' = heap
    /\ last' = Op("fromfile", via, "yaml", filename, NoneV, NoneV)
    /\ nops' = nops + 1
    /\ UNCHANGED <<cfg, fs, stack, regVars, merges, classVars, dbVars>>

FromFileYAML(filename) == YAMLfromfile("", filename)

\* an activation of PyConfigurator.fromfile(filename)
Frame(filename) ==
    [file |-> filename, pc |-> "load", bases |-> <<>>, idx |-> 1,
     base_config |-> 0, config_dict |-> NoneV]
Top == stack[Len(stack)]

\* an exception leaves every activation
Raise(exception) ==
    /\ stack' = <<>>
    /\ result' = Result(exception, 0)

\* PyConfigurator.fromfile(filename) is entered
Pyfromfile(via, filename) ==
    /\ nops < MaxOps
    /\ stack = <<>>
    /\ stack' = <<Frame(filename)>>
    /\ result' = Result("none", 0)
    /\ pre' = heap
    /\ last' = Op("fromfile", via, "py", filename, NoneV, NoneV)
    /\ nops' = nops + 1
    /\ UNCHANGED <<heap, cfg, fs, regVars, merges, classVars, dbVars>>

\* the caller's PyConfigurator.fromfile(filename)
FromFilePy(filename) == Pyfromfile("", filename)

\* AutoConfigurator.fromfile(filename)
AutoFromFile(filename) ==
    LET file_extension == Suffix(filename)
        configurator_class == get(reg["CONFIGURATOR_REGISTRY"], file_extension)
    IN IF configurator_class.status = "ok" /\ configurator_class.ret # "None"
       THEN CASE configurator_class.ret = "JSONConfigurator" -> JSONfromfile("Auto", filename)
              [] configurator_class.ret = "YAMLConfigurator" -> YAMLfromfile("Auto", filename)
              [] configurator_class.ret = "PyConfigurator" -> Pyfromfile("Auto", filename)
       ELSE /\ nops < MaxOps
            /\ stack = <<>>
            /\ result' = Result(IF configurator_class.status = "ok" THEN "ValueError"
                                ELSE configurator_class.status, 0)
            /\ pre' = heap
            /\ last' = Op("fromfile", "Auto", file_extension, filename, NoneV, NoneV)
            /\ nops' = nops + 1
            /\ UNCHANGED <<heap, cfg, fs, stack, regVars, merges, classVars, dbVars>>

\* LoadPythonConfig with a missing file read as a file without assignments
LoadPythonConfigMissingIsEmpty ==
    /\ stack # <<>>
    /\ Top.pc = "load"
    /\ LET loaded == _load_python_config(IF Top.file \in DOMAIN fs THEN fs[Top.file] ELSE <<>>)
           r == PyConfigurator(heap, NoneV, NoneV)
       IN /\ heap' = r.heap
          /\ stack' = [stack EXCEPT ![Len(stack)] =
                         [@ EXCEPT !.pc = "bases",
                                   !.bases = NormalizeBases(loaded.base_files),
                                   !.config_dict = loaded.config_dict,
                                   !.base_config = r.id]]
          /\ UNCHANGED result
    /\ UNCHANGED <<cfg, pre, last, nops, fs, regVars, merges, classVars, dbVars>>

\* fromfile up to its loop: _load_python_config(filename), the list of base
\* files, base_config = cls()
LoadPythonConfig ==
    /\ stack # <<>>
    /\ Top.pc = "load"
    /\ IF Top.file \notin DOMAIN fs
       THEN /\ Raise("FileNotFoundError")
            /\ UNCHANGED heap
       ELSE LET loaded == _load_python_config(fs[Top.file])
                r == PyConfigurator(heap, NoneV, NoneV)
            IN /\ heap' = r.heap
               /\ stack' = [stack EXCEPT ![Len(stack)] =
                              [@ EXCEPT !.pc = "bases",
                                        !.bases = NormalizeBases(loaded.base_files),
                                        !.config_dict = loaded.config_dict,
                                        !.base_config = r.id]]
               /\ UNCHANGED result
    /\ UNCHANGED <<cfg, pre, last, nops, fs, regVars, merges, classVars, dbVars>>

\* LoadBase with an entry that is None skipped
LoadBaseSkipsNone ==
    /\ stack # <<>>
    /\ Top.pc = "bases"
    /\ Top.idx <= Len(Top.bases)
    /\ IF Top.bases[Top.idx].t = "none"
       THEN /\ stack' = [stack EXCEPT ![Len(stack)].idx = @ + 1]
            /\ UNCHANGED result
       ELSE IF Len(stack) >= RecursionLimit
       THEN Raise("RecursionError")
       ELSE /\ stack' = Append(stack, Frame(Top.bases[Top.idx].s))
            /\ UNCHANGED result
    /\ UNCHANGED <<heap, cfg, pre, last, nops, fs, regVars, merges, classVars, dbVars>>

\* one iteration of the loop: cls.fromfile(base_file) is entered, or the
\* entry is None; the interpreter refuses an activation beyond its limit
LoadBase ==
    /\ stack # <<>>
    /\ Top.pc = "bases"
    /\ Top.idx <= Len(Top.bases)
    /\ IF Top.bases[Top.idx].t = "none"
       THEN Raise("ValueError")
       ELSE IF Len(stack) >= RecursionLimit
       THEN Raise("RecursionError")
       ELSE /\ stack' = Append(stack, Frame(Top.bases[Top.idx].s))
            /\ UNCHANGED result
    /\ UNCHANGED <<heap, cfg, pre, last, nops, fs, regVars, merges, classVars, dbVars>>

\* MergeCurrent with the merge the other way round: the bases merged into
\* the file's own configuration, which is returned
MergeCurrentBasesOnTop ==
    /\ stack # <<>>
    /\ Top.pc = "bases"
    /\ Top.idx > Len(Top.bases)
    /\ LET r == PyConfigurator(heap, Top.config_dict, NoneV)
       IN /\ heap' = merge(r.heap, r.id, Top.base_config)
          /\ stack' = [stack EXCEPT ![Len(stack)].pc = "return",
                                    ![Len(stack)].base_config = r.id]
    /\ UNCHANGED <<cfg, pre, last, nops, fs, result, regVars, merges, classVars, dbVars>>

\* after the loop: current_config = cls(config_dict); base_config.merge(current_config)
MergeCurrent ==
    /\ stack # <<>>
    /\ Top.pc = "bases"
    /\ Top.idx > Len(Top.bases)
    /\ LET r == PyConfigurator(heap, Top.config_dict, NoneV)
       IN heap' = merge(r.heap, Top.base_config, r.id)
    /\ stack' = [stack EXCEPT ![Len(stack)].pc = "return"]
    /\ UNCHANGED <<cfg, pre, last, nops, fs, result, regVars, merges, classVars, dbVars>>

\* return base_config: to the caller of the outermost activation, or into
\* base_config.merge(...) of the activation that asked for this base file
Return ==
    /\ stack # <<>>
    /\ Top.pc = "return"
    /\ IF Len(stack) = 1
       THEN /\ stack' = <<>>
            /\ result' = Result("ok", Top.base_config)
            /\ UNCHANGED heap
       ELSE /\ heap' = merge(heap, stack[Len(stack) - 1].base_config, Top.base_config)
            /\ stack' = [SubSeq(stack, 1, Len(stack) - 1) EXCEPT ![Len(stack) - 1].idx = @ + 1]
            /\ UNCHANGED result
    /\ UNCHANGED <<cfg, pre, last, nops, fs, regVars, merges, classVars, dbVars>>

\* the effect of a call on the registry r: its _modules, the call and what
\* it returned or raised
RegistryCall(r, op, form, name, arg, outcome, ret) ==
    /\ nops < MaxRegOps
    /\ reg' = [reg EXCEPT ![r] = outcome.modules]
    /\ preReg' = reg
    /\ result' = Result(outcome.status, 0)
    /\ last' = Op(op, r, form, name, arg, ret)
    /\ nops' = nops + 1
    /\ UNCHANGED <<heap, cfg, pre, fs, stack, merges, classVars, dbVars>>

\* @r.register(name) in front of the definition of module, that is
\* r.register(name)(module)
RegisterDecorator(r, name, module) ==
    LET outcome == _register(reg[r], name, module)
    IN RegistryCall(r, "register", "decorator", IF name = NoneV THEN module ELSE name.s,
                    ModuleV(module),
                    outcome, IF outcome.status = "ok" THEN ModuleV(outcome.ret) ELSE NoneV)

\* r.register(name, module): register takes no argument after name
RegisterDirect(r, name, module) ==
    RegistryCall(r, "register", "direct", name.s, ModuleV(module),
                 Outcome("TypeError", reg[r], ""), NoneV)

\* r.get(name)
Get(r, name) ==
    LET outcome == get(reg[r], name)
    IN RegistryCall(r, "get", "", name, NoneV, outcome,
                    IF outcome.status = "ok" /\ outcome.ret # "None"
                    THEN ModuleV(outcome.ret) ELSE NoneV)

\* name in r
Contains(r, name) ==
    RegistryCall(r, "contains", "", name, NoneV, Outcome("ok", reg[r], ""),
                 BoolV(__contains__(reg[r], name)))

\* a registry of the caller: registrations and lookups
NextRegistry ==
    \/ \E name \in RegisterNames, module \in Modules :
          RegisterDecorator("TestRegistry", name, module)
    \/ \E name \in RegisterNames \ {NoneV}, module \in Modules :
          RegisterDirect("TestRegistry", name, module)
    \/ \E name \in LookupNames : Get("TestRegistry", name)
    \/ \E name \in LookupNames : Contains("TestRegistry", name)

SpecRegistry == Init /\ [][NextRegistry]_vars

\* two configuration objects, merged into each other and assigned to
Next ==
    \/ \E m \in RawsA : New("A", m)
    \/ \E m \in RawsB : New("B", m)
    \/ \E tgt \in Names, src \in Names : Merge(tgt, src)
    \/ \E key \in SetKeys, value \in SetValues : SetItem("A", key, value)
    \/ \E key2 \in {"a", "b"} : SetNested("A", "a", key2, IntV(3))

Spec == Init /\ [][Next]_vars

\* tgt['r'] = value, once for each instance and before the merges
SetRaw(tgt, value) ==
    /\ nops = 0
    /\ cfg[tgt] # 0
    /\ "r" \notin DOMAIN heap[cfg[tgt]].f
    /\ heap' = __setitem__(heap, cfg[tgt], "r", value)
    /\ pre' = heap
    /\ last' = Op("setitem", tgt, "", "r", value, NoneV)
    /\ UNCHANGED <<nops, cfg, fileVars, regVars, merges, classVars, dbVars>>

\* two configuration objects that hold raw mappings, merged into each other
NextRaw ==
    \/ \E m \in RawsRaw : New("A", m)
    \/ \E m \in RawsRaw : New("B", m)
    \/ \E tgt \in Names, value \in RawDicts : SetRaw(tgt, value)
    \/ \E tgt \in Names, src \in Names : Merge(tgt, src)

SpecRaw == Init /\ [][NextRaw]_vars

\* cls(config_dict, singleton=True): type.__call__ runs __new__, and then
\* __init__ if what __new__ returned is an instance of cls; the __init__ of
\* PyConfigurator does not take the argument singleton
SingletonNew(cls, config_dict) ==
    /\ nops < MaxSingletonOps
    /\ LET n == __new__(heap, singleton, cls)
       IN /\ singleton' = n.singleton
          /\ IF ~isinstance(n.obj, cls)
             THEN /\ heap' = n.heap
                  /\ result' = Result("ok", n.obj.id)
             ELSE IF cls \notin Inherits__init__
             THEN /\ heap' = n.heap
                  /\ result' = Result("TypeError", 0)
             ELSE /\ heap' = __init__(n.heap, n.singleton, n.obj.id, config_dict)
                  /\ result' = Result("ok", n.obj.id)
    /\ made' = IF result'.status = "ok" THEN [made EXCEPT ![cls] = result'.id] ELSE made
    /\ preMade' = made
    /\ pre' = heap
    /\ last' = Op("singleton", cls, "", "", config_dict, NoneV)
    /\ nops' = nops + 1
    /\ UNCHANGED <<cfg, fs, stack, regVars, merges, dbVars>>

\* cls.reset_singleton_instance()
ResetSingleton(cls) ==
    /\ nops < MaxSingletonOps
    /\ singleton' = reset_singleton_instance(singleton, cls)
    /\ made' = [c \in Classes |-> 0]
    /\ preMade' = made
    /\ pre' = heap
    /\ last' = Op("reset", cls, "", "", NoneV, NoneV)
    /\ nops' = nops + 1
    /\ UNCHANGED <<heap, cfg, fileVars, regVars, merges, dbVars>>

\* constructions with singleton=True and resets, of every class
NextSingleton ==
    \/ \E cls \in Classes, m \in SingletonDicts : SingletonNew(cls, m)
    \/ \E cls \in Classes : ResetSingleton(cls)

SpecSingleton == Init /\ [][NextSingleton]_vars

\* a call on the wrapper: the file, the wrapper, the call and what it gave
DbCall(op, arg, done) ==
    /\ nops < MaxDbOps
    /\ db' = done.db
    /\ conn' = done.conn
    /\ preDb' = [db |-> db, conn |-> conn]
    /\ life' = IF op \in {"new", "connect", "close"} THEN op ELSE life
    /\ result' = Result(done.status, 0)
    /\ last' = Op(op, "test", IF done.caught THEN "sqlite3.Error" ELSE "", "", arg, done.ret)
    /\ nops' = IF op = "new" THEN nops ELSE nops + 1
    /\ UNCHANGED <<heap, cfg, pre, fs, stack, regVars, merges, classVars>>

\* db = SQLiteDatabase(db_cfg)
DbNew == ~conn.obj /\ DbCall("new", NoneV, SQLiteDatabase(db))

DbConnect == conn.obj /\ DbCall("connect", NoneV, connect(db, conn))

DbClose == conn.obj /\ DbCall("close", NoneV, close(db, conn))

DbCreateTable(schema) ==
    conn.obj /\ DbCall("create_table", schema, create_table(db, conn, "test", schema))

DbDropTable(if_exists) ==
    conn.obj /\ DbCall("drop_table", BoolV(if_exists), drop_table(db, conn, "test", if_exists))

DbInsert(data) == conn.obj /\ DbCall("insert", data, insert(db, conn, "test", data))

DbInserts(data_list) ==
    conn.obj /\ DbCall("inserts", data_list, inserts(db, conn, "test", data_list))

DbDelete(condition) ==
    conn.obj /\ DbCall("delete", <<condition>>, delete(db, conn, "test", condition))

DbDeletes(conditions) ==
    conn.obj /\ DbCall("deletes", conditions, deletes(db, conn, "test", conditions))

DbUpdate(record, condition) ==
    conn.obj /\ DbCall("update", [records |-> <<record>>, conditions |-> <<condition>>],
                       update(db, conn, "test", record, condition))

DbUpdates(records, conditions) ==
    conn.obj /\ DbCall("updates", [records |-> records, conditions |-> conditions],
                       updates(db, conn, "test", records, conditions))

DbSelect(conditions) ==
    conn.obj /\ DbCall("select", <<conditions>>, select(db, conn, "test", conditions))

DbSelects(conditions_list) ==
    conn.obj /\ DbCall("selects", conditions_list, selects(db, conn, "test", conditions_list))

\* a database file and the wrapper constructed on it
InitDb ==
    /\ InitObjects
    /\ fs = NoFiles
    /\ db \in DbFiles
    /\ conn = Wrapper(FALSE, FALSE, db)
    /\ preDb = [db |-> db, conn |-> conn]
    /\ life = ""

\* the wrapper through its life: connections, tables, rows written and read
NextDb ==
    \/ DbNew
    \/ DbConnect
    \/ DbClose
    \/ \E schema \in Schemas : DbCreateTable(schema)
    \/ \E if_exists \in BOOLEAN : DbDropTable(if_exists)
    \/ \E data \in InsertData : DbInsert(data)
    \/ \E data_list \in InsertLists : DbInserts(data_list)
    \/ \E condition \in Conditions \cup QuotedConditions : DbDelete(condition)
    \/ \E conditions \in ConditionLists : DbDeletes(conditions)
    \/ \E record \in Records, condition \in Conditions : DbUpdate(record, condition)
    \/ \E u \in UpdateLists : DbUpdates(u.records, u.conditions)
    \/ \E conditions \in {NoneV} \cup {DictV(c) : c \in Conditions} : DbSelect(conditions)
    \/ \E conditions_list \in ConditionLists :
          DbSelects([n \in 1..Len(conditions_list) |-> DictV(conditions_list[n])])

SpecDb == InitDb /\ [][NextDb]_vars

\* one configuration object, read and written by key and by attribute
NextAccess ==
    \/ \E m \in RawsA \cup RawsPy : New("A", m)
    \/ \E m \in RawsPy, b \in BaseFiles : NewPy(m, b)
    \/ \E key \in SetKeys, value \in SetValues : SetItem("A", key, value)
    \/ \E key \in SetKeys, value \in SetValues : SetAttr("A", key, value)
    \/ \E key \in GetKeys : GetItem("A", key)
    \/ \E key \in GetKeys : GetAttrOp("A", key)
    \/ ToDict("A")

SpecAccess == Init /\ [][NextAccess]_vars

\* a configuration object dumped to files and the files loaded again
NextFile ==
    \/ \E m \in RawsJSON : New("A", m)
    \/ \E m \in RawsPy, b \in BaseFiles : NewPy(m, b)
    \/ \E format \in Formats \cup Unregistered : DumpFile("A", format)
    \/ FromFileJSON(FileOf("json"))
    \/ FromFileYAML(FileOf("yaml"))
    \/ FromFilePy(FileOf("py"))
    \/ \E format \in Formats \cup Unregistered : AutoFromFile(FileOf(format))
    \/ LoadPythonConfig
    \/ LoadBase
    \/ MergeCurrent
    \/ Return

SpecFile == Init /\ [][NextFile]_vars

\* Python configuration files that name base files, loaded
InitPy == InitObjects /\ fs \in PyFileSystems /\ NoDatabase

NextPy ==
    \/ \E filename \in PyFileNames : FromFilePy(filename)
    \/ FromFileJSON("missing.json")
    \/ FromFileYAML("missing.yaml")
    \/ LoadPythonConfig
    \/ LoadBase
    \/ MergeCurrent
    \/ Return

SpecPy == InitPy /\ [][NextPy]_vars

\* the same loads over files with cyclic declarations
InitCycle == InitObjects /\ fs \in CyclicFileSystems /\ NoDatabase

SpecCycle == InitCycle /\ [][NextPy]_vars

----------------------------------------------------------------------------
(* Properties of merge (checked under Spec and SpecRaw).                    *)

Merged == last.op = "merge"
\* the target and the source of the last merge
T == cfg[last.tgt]
S == cfg[last.src]

\* a field's value with the instances and dict objects below it spelled out
Deep(h, v) == IF IsNode(v) THEN DictV(to_dict(h, v.i)) ELSE Freeze(h, v)

\* the pairs (target instance, source instance) that merge(t, s) is applied to
RECURSIVE MergedPairs(_, _, _)
MergedPairs(h, t, s) ==
    {<<t, s>>} \cup
    UNION {MergedPairs(h, h[t].f[k].i, h[s].f[k].i) :
             k \in {j \in DOMAIN h[t].f \cap DOMAIN h[s].f :
                        IsNode(h[t].f[j]) /\ IsNode(h[s].f[j])}}

\* the keys at which both the target and the source held a nested instance
BothNodes == {k \in DOMAIN pre[T].f \cap DOMAIN pre[S].f :
                IsNode(pre[T].f[k]) /\ IsNode(pre[S].f[k])}

\* the fields of a mapping whose value is not None
NonNull(m) == [k \in {j \in DOMAIN m : m[j].t # "none"} |-> m[k]]

\* the right-biased recursive merge of two plain mappings
RECURSIVE RecMerge(_, _)
RecMerge(a, b) ==
    [k \in DOMAIN a \cup DOMAIN NonNull(b) |->
        IF k \notin DOMAIN NonNull(b) THEN a[k]
        ELSE IF k \notin DOMAIN a THEN b[k]
        ELSE IF a[k].t = "dict" /\ b[k].t = "dict" THEN DictV(RecMerge(a[k].d, b[k].d))
        ELSE b[k]]

\* C1: after A.merge(B), every field of B that held a non-null scalar is a
\* field of A with the same value, whatever A held there before.
C1_ScalarOverrides ==
    Merged =>
        \A k \in DOMAIN pre[S].f :
            IsScalar(pre[S].f[k]) =>
                k \in DOMAIN heap[T].f /\ heap[T].f[k] = pre[S].f[k]

\* a merge in which a scalar of B replaced a nested instance of A, another
\* a different scalar of A, and a third was new to A
C1_Witness ==
    /\ Merged /\ T # S
    /\ \E k \in DOMAIN pre[S].f \cap DOMAIN pre[T].f :
          IsScalar(pre[S].f[k]) /\ IsNode(pre[T].f[k])
    /\ \E k \in DOMAIN pre[S].f \cap DOMAIN pre[T].f :
          IsScalar(pre[S].f[k]) /\ IsScalar(pre[T].f[k]) /\ pre[S].f[k] # pre[T].f[k]

\* the parts of C2 that hold for null and non-null fields alike: the nested
\* instance of A stays in place, and at every depth the keys only in A's
\* subtree are kept and the shared keys with a scalar in B take B's value
C2_Common ==
    Merged =>
        \A k \in BothNodes :
            /\ heap[T].f[k] = pre[T].f[k]
            /\ \A p \in MergedPairs(pre, pre[T].f[k].i, pre[S].f[k].i) :
                  /\ \A j \in DOMAIN pre[p[1]].f \ DOMAIN pre[p[2]].f :
                        /\ j \in DOMAIN heap[p[1]].f
                        /\ Deep(heap, heap[p[1]].f[j]) = Deep(pre, pre[p[1]].f[j])
                  /\ \A j \in DOMAIN pre[p[1]].f \cap DOMAIN pre[p[2]].f :
                        IsScalar(pre[p[2]].f[j]) => heap[p[1]].f[j] = pre[p[2]].f[j]

\* C2 as stated: where A and B both held a nested instance at k, the field k
\* of A is afterwards the recursive merge of the two, at every depth: keys
\* only in A's subtree kept, keys only in B's subtree added, shared scalar
\* keys taken from B.
C2_Original ==
    /\ C2_Common
    /\ Merged =>
          \A k \in BothNodes :
              \A p \in MergedPairs(pre, pre[T].f[k].i, pre[S].f[k].i) :
                  \A j \in DOMAIN pre[p[2]].f \ DOMAIN pre[p[1]].f :
                      /\ j \in DOMAIN heap[p[1]].f
                      /\ Deep(heap, heap[p[1]].f[j]) = Deep(pre, pre[p[2]].f[j])

\* C2, amended: as C2, with only the keys of B's subtree whose value is not
\* None added (a None-valued key only in B's subtree stays absent); the field
\* k of A then equals the right-biased recursive merge of the two subtrees,
\* and the example {a:1,b:{x:10,y:20}} merged with {b:{y:21,z:30},c:4} gives
\* {a:1,b:{x:10,y:21,z:30},c:4}.
C2_RecursiveMerge ==
    /\ C2_Common
    /\ Merged =>
          \A k \in BothNodes :
              /\ to_dict(heap, heap[T].f[k].i) =
                    RecMerge(to_dict(pre, pre[T].f[k].i), to_dict(pre, pre[S].f[k].i))
              /\ \A p \in MergedPairs(pre, pre[T].f[k].i, pre[S].f[k].i) :
                    \A j \in DOMAIN pre[p[2]].f \ DOMAIN pre[p[1]].f :
                        IF pre[p[2]].f[j].t = "none"
                        THEN j \notin DOMAIN heap[p[1]].f
                        ELSE /\ j \in DOMAIN heap[p[1]].f
                             /\ Deep(heap, heap[p[1]].f[j]) = Deep(pre, pre[p[2]].f[j])
    /\ (Merged /\ to_dict(pre, T) = ExampleBase /\ to_dict(pre, S) = ExampleChild) =>
          to_dict(heap, T) =
              ("a" :> IntV(1)) @@ ("c" :> IntV(4)) @@
              ("b" :> DictV(("x" :> IntV(10)) @@ ("y" :> IntV(21)) @@ ("z" :> IntV(30))))

\* a merge that went two instances deep, where the inner pair had a key only
\* in A's subtree, a key only in B's and a shared key with different scalars
C2_Witness ==
    /\ Merged /\ T # S
    /\ \E k \in BothNodes :
          \E p \in MergedPairs(pre, pre[T].f[k].i, pre[S].f[k].i) :
              /\ p[1] # pre[T].f[k].i
              /\ DOMAIN pre[p[1]].f \ DOMAIN pre[p[2]].f # {}
              /\ \E j \in DOMAIN pre[p[2]].f \ DOMAIN pre[p[1]].f : pre[p[2]].f[j].t # "none"
              /\ \E j \in DOMAIN pre[p[1]].f \cap DOMAIN pre[p[2]].f :
                    IsScalar(pre[p[2]].f[j]) /\ pre[p[1]].f[j] # pre[p[2]].f[j]

\* C3: a field of the source whose value is None never overrides: for every
\* pair of instances that merge is applied to, at the top and at every
\* nesting depth, each key that is None in the source is left in the target
\* exactly as it was: unchanged if present, still absent if absent.
C3_NoneNeverOverrides ==
    Merged =>
        \A p \in MergedPairs(pre, T, S) :
            \A k \in DOMAIN pre[p[2]].f :
                pre[p[2]].f[k].t = "none" =>
                    IF k \in DOMAIN pre[p[1]].f
                    THEN /\ k \in DOMAIN heap[p[1]].f
                         /\ heap[p[1]].f[k] = pre[p[1]].f[k]
                         /\ Deep(heap, heap[p[1]].f[k]) = Deep(pre, pre[p[1]].f[k])
                    ELSE k \notin DOMAIN heap[p[1]].f

\* a merge whose source had, below the top, a None where the target had a
\* value, and a None where the target had nothing
C3_Witness ==
    /\ Merged /\ T # S
    /\ \E p \in MergedPairs(pre, T, S) :
          /\ p[1] # T
          /\ \E k \in DOMAIN pre[p[2]].f \cap DOMAIN pre[p[1]].f :
                pre[p[2]].f[k].t = "none" /\ pre[p[1]].f[k].t # "none"
    /\ \E p \in MergedPairs(pre, T, S) :
          \E k \in DOMAIN pre[p[2]].f \ DOMAIN pre[p[1]].f : pre[p[2]].f[k].t = "none"

\* C4 as stated: merging a source without fields leaves to_dict() as it
\* was, and merging instances with disjoint keys yields exactly the union of
\* their fields.
C4_Original ==
    /\ (Merged /\ DOMAIN to_dict(pre, S) = {}) => to_dict(heap, T) = to_dict(pre, T)
    /\ (Merged /\ DOMAIN to_dict(pre, S) \cap DOMAIN to_dict(pre, T) = {}) =>
          to_dict(heap, T) = to_dict(pre, S) @@ to_dict(pre, T)

\* C4, amended: merging a source without fields leaves to_dict() as it was,
\* and merging instances with disjoint keys yields exactly the union of the
\* target's fields and the source's fields that are not None.
C4_EmptyAndDisjoint ==
    /\ (Merged /\ DOMAIN to_dict(pre, S) = {}) => to_dict(heap, T) = to_dict(pre, T)
    /\ (Merged /\ DOMAIN to_dict(pre, S) \cap DOMAIN to_dict(pre, T) = {}) =>
          to_dict(heap, T) = NonNull(to_dict(pre, S)) @@ to_dict(pre, T)

\* a merge of two instances with disjoint, non-empty sets of keys, the source
\* with a None field and a field that is not None
C4_Witness ==
    /\ Merged
    /\ DOMAIN to_dict(pre, S) \cap DOMAIN to_dict(pre, T) = {}
    /\ DOMAIN to_dict(pre, T) # {}
    /\ \E k \in DOMAIN to_dict(pre, S) : to_dict(pre, S)[k].t = "none"
    /\ \E k \in DOMAIN to_dict(pre, S) : to_dict(pre, S)[k].t # "none"

\* the instances
Nodes(h) == {id \in 1..Len(h) : h[id].kind = "node"}
\* the fields of instances that hold the instance n
Parents(h, n) ==
    {pk \in UNION {{<<p, k>> : k \in DOMAIN h[p].f} : p \in Nodes(h)} :
        h[pk[1]].f[pk[2]] = NodeV(n)}
\* the instances nested in the instance id, and those nested at any depth
Children(h, id) == {h[id].f[k].i : k \in {j \in DOMAIN h[id].f : IsNode(h[id].f[j])}}
RECURSIVE Below(_, _, _)
Below(h, ids, n) ==
    IF n = 0 THEN ids ELSE Below(h, ids \cup UNION {Children(h, id) : id \in ids}, n - 1)
Descendants(h, id) == Below(h, Children(h, id), Len(h))

\* C11: nested instances are exclusively owned by their parent: after any
\* construction, set and merge operations no nested instance is referenced
\* by two parents or trees (an instance a variable holds is nobody's child)
\* and no instance is its own descendant; in particular, once A.merge(B)
\* was made, a later merge or set on A does not change B.to_dict().
C11_ExclusiveOwnership ==
    /\ \A n \in Nodes(heap) :
          /\ Cardinality(Parents(heap, n)) <= 1
          /\ n \in {cfg[name] : name \in Names} => Parents(heap, n) = {}
          /\ n \notin Descendants(heap, n)
    /\ (/\ <<"A", "B">> \in merges
        /\ last.tgt = "A"
        /\ last.op \in {"merge", "setitem", "setnested"}
        /\ ~(last.op = "merge" /\ last.src = "B")) =>
          to_dict(heap, cfg["B"]) = to_dict(pre, cfg["B"])

----------------------------------------------------------------------------
(* Properties of construction and field access (checked under SpecAccess).  *)

A == cfg["A"]

\* no field of the instance, or of an instance nested in it, holds a dict
RECURSIVE NoRawMapping(_, _)
NoRawMapping(h, id) ==
    \A k \in DOMAIN h[id].f :
        /\ ~IsDict(h[id].f[k])
        /\ IsNode(h[id].f[k]) => NoRawMapping(h, h[id].f[k].i)

\* reading the fields named in the mapping m by key and by attribute: a
\* nested instance where m has a mapping, m's value elsewhere
RECURSIVE ReadsBack(_, _, _)
ReadsBack(h, id, m) ==
    \A k \in DOMAIN m :
        /\ __getitem__(h, id, k) = GetAttr(h, id, k)
        /\ IF IsDict(m[k])
           THEN /\ IsNode(__getitem__(h, id, k))
                /\ ReadsBack(h, __getitem__(h, id, k).i, m[k].d)
           ELSE __getitem__(h, id, k) = m[k]

\* C7: after BaseConfigurator(m) every mapping value of m, at every depth,
\* is a nested instance: no field reachable through nested instances holds a
\* raw mapping, and reading the nested fields by key or by attribute gives
\* the leaf values of m.
C7_MappingsBecomeNodes ==
    (last.op \in {"new", "newpy"} /\ IsDict(last.arg)) =>
        /\ NoRawMapping(heap, A)
        /\ ReadsBack(heap, A, last.arg.d)

\* an instance built from a mapping that holds a mapping within a mapping
C7_Witness ==
    /\ last.op = "new"
    /\ IsDict(last.arg)
    /\ \E k \in DOMAIN last.arg.d :
          /\ IsDict(last.arg.d[k])
          /\ \E j \in DOMAIN last.arg.d[k].d : IsDict(last.arg.d[k].d[j])

\* C8: set(name, value), by key or by attribute, converts a raw mapping into
\* a nested instance before storing it, stores any other value as it is and
\* overwrites an existing field; a later get of that name never returns a
\* raw mapping.
C8_SetConvertsMappings ==
    last.op \in {"setitem", "setattr"} =>
        /\ last.key \in DOMAIN heap[A].f
        /\ IF IsDict(last.arg)
           THEN /\ IsNode(heap[A].f[last.key])
                /\ NoRawMapping(heap, heap[A].f[last.key].i)
                /\ ReadsBack(heap, heap[A].f[last.key].i, last.arg.d)
           ELSE heap[A].f[last.key] = last.arg
        /\ ~IsDict(__getitem__(heap, A, last.key))
        /\ ~IsDict(GetAttr(heap, A, last.key))

\* C9: reading a field never fails, and for every name get by key and get
\* by attribute both return the field's value when the field exists and None
\* when it does not, so that the two forms agree on every name.
C9_AccessFormsAgree ==
    last.op \in {"getitem", "getattr"} =>
        /\ last.ret = IF last.key \in DOMAIN pre[A].f THEN pre[A].f[last.key] ELSE NoneV
        /\ __getitem__(pre, A, last.key) = GetAttr(pre, A, last.key)

\* a mapping without instances in it, at any depth
RECURSIVE PlainMapping(_)
PlainMapping(v) ==
    /\ v.t \notin {"node", "dictref"}
    /\ v.t = "dict" => \A k \in DOMAIN v.d : PlainMapping(v.d[k])

\* C10: to_dict() returns a plain nested mapping of the current fields,
\* every nested instance replaced by a mapping, in which neither the
\* initialization flag nor the base-files list (_base_) appears as a key.
C10_ToDictHidesBookkeeping ==
    last.op = "to_dict" =>
        /\ PlainMapping(last.ret)
        /\ "_is_initialized" \notin DOMAIN last.ret.d
        /\ "_base_" \notin DOMAIN last.ret.d

----------------------------------------------------------------------------
(* Properties of dumping and loading (checked under SpecFile, SpecPy).      *)

\* a load has returned or raised
Loaded == last.op = "fromfile" /\ stack = <<>>

\* C5: for every format F of json, yaml and py and every instance N built
\* from JSON-representable values, null-valued fields and nested mappings
\* included, loading the file that N was dumped to in format F with F's
\* configurator yields an instance whose to_dict() equals N.to_dict().
C5_RoundTrip ==
    (/\ Loaded
     /\ A # 0
     /\ "_base_" \notin DOMAIN heap[A].f
     /\ last.key \in DOMAIN fs
     /\ fs[last.key] = dumpfile(heap, A, last.src)) =>
        /\ result.status = "ok"
        /\ to_dict(heap, result.id) = to_dict(heap, A)

\* the mapping a Python file assigns and the base files it declares
Own(filename) == _load_python_config(fs[filename]).config_dict.d
BasesOf(filename) == NormalizeBases(_load_python_config(fs[filename]).base_files)

\* the sources of a load in the order they are merged: the sources of each
\* base file in declared order, then the file itself
RECURSIVE Chain(_), ChainOfBases(_, _)
ChainOfBases(bases, n) ==
    IF n > Len(bases) THEN <<>> ELSE Chain(bases[n].s) \o ChainOfBases(bases, n + 1)
Chain(filename) == ChainOfBases(BasesOf(filename), 1) \o <<filename>>

\* the positions of the chain whose file defines the key, and those whose
\* file gives it a value other than None
Definers(chain, key) == {n \in 1..Len(chain) : key \in DOMAIN Own(chain[n])}
NonNullDefiners(chain, key) == {n \in Definers(chain, key) : Own(chain[n])[key].t # "none"}
Last(positions) == CHOOSE n \in positions : \A m \in positions : m <= n
ChainKeys(chain) == UNION {DOMAIN Own(chain[n]) : n \in 1..Len(chain)}

\* the result of a load by the rules of merge: the results of the base files
\* merged left to right into an empty mapping, then the file's own mapping
RECURSIVE Expected(_), ExpectedBases(_, _, _)
ExpectedBases(bases, n, acc) ==
    IF n > Len(bases) THEN acc
    ELSE ExpectedBases(bases, n + 1, RecMerge(acc, Expected(bases[n].s)))
Expected(filename) ==
    RecMerge(ExpectedBases(BasesOf(filename), 1, NoItems), Own(filename))

\* C6 as stated: a load merges the bases left to right and the file's own
\* fields on top: for every key shared by several sources the value of the
\* last source that defines it wins (the current file over all bases), and
\* every key defined only in an earlier base is preserved.
C6_Original ==
    (Loaded /\ last.src = "py" /\ result.status = "ok") =>
        LET chain == Chain(last.key)
            f == heap[result.id].f
        IN \A key \in ChainKeys(chain) :
              (Cardinality(Definers(chain, key)) > 1 \/ Len(chain) \notin Definers(chain, key)) =>
                  /\ key \in DOMAIN f
                  /\ Deep(heap, f[key]) = Own(chain[Last(Definers(chain, key))])[key]

\* C6, amended: a load merges the bases left to right and the file's own
\* fields on top by the rules of merge: a source that gives a key the value
\* None does not count; for every key the last source that gives it a value
\* other than None decides, and if that value is not a mapping it wins as it
\* is (the current file over all bases), while the mapping values of
\* successive sources are merged recursively instead of replaced; a key
\* given a value other than None by one source only is preserved with that
\* value, and a key that no source gives such a value is absent.
C6_InheritanceOrder ==
    (Loaded /\ last.src = "py" /\ result.status = "ok") =>
        LET chain == Chain(last.key)
            f == heap[result.id].f
        IN /\ to_dict(heap, result.id) = Expected(last.key)
           /\ \A key \in ChainKeys(chain) :
                 LET definers == NonNullDefiners(chain, key)
                     value == Own(chain[Last(definers)])[key]
                 IN IF definers = {} THEN key \notin DOMAIN f
                    ELSE /\ key \in DOMAIN f
                         /\ value.t # "dict" => f[key] = value
                         /\ value.t = "dict" => IsNode(f[key])
                         /\ Cardinality(definers) = 1 => Deep(heap, f[key]) = value

\* a load of a file with two base files that returned, where a key has
\* different scalars in a base file and in the file itself and another key
\* is defined by the first base file only
C6_Witness ==
    /\ Loaded /\ last.src = "py" /\ result.status = "ok"
    /\ Len(BasesOf(last.key)) = 2
    /\ \E key \in DOMAIN Own(last.key) \cap DOMAIN Own(BasesOf(last.key)[2].s) :
          /\ IsScalar(Own(last.key)[key])
          /\ IsScalar(Own(BasesOf(last.key)[2].s)[key])
          /\ Own(last.key)[key] # Own(BasesOf(last.key)[2].s)[key]
    /\ \E key \in DOMAIN Own(BasesOf(last.key)[1].s) :
          Definers(Chain(last.key), key) = {1}

----------------------------------------------------------------------------
(* Errors of loading (checked under SpecPy).                                *)

\* the files a load of filename asks for: the file and, as far as the files
\* exist, the base files they declare, to any depth
RECURSIVE Asked(_, _)
Asked(names, n) ==
    IF n = 0 THEN names
    ELSE Asked(names \cup {b.s : b \in UNION {{BasesOf(f)[i] : i \in 1..Len(BasesOf(f))} :
                                              f \in names \cap DOMAIN fs} \ {NoneV}},
               n - 1)
Chained(filename) == Asked({filename}, Cardinality(PyFileNames))
\* one of them does not exist; one of them has None in its list of base files
MissingInChain(filename) == Chained(filename) \ DOMAIN fs # {}
NullInChain(filename) ==
    \E f \in Chained(filename) \cap DOMAIN fs :
        \E i \in 1..Len(BasesOf(f)) : BasesOf(f)[i] = NoneV

----------------------------------------------------------------------------
(* Formats and extensions nothing is registered for, values that refer to  *)
(* the environment (checked under SpecFile).                                *)

\* C14: dumpfile(filename, format) with a format that no dumper is
\* registered for fails with ValueError (unsupported format), not with the
\* KeyError of the registry, and writes nothing to filename.
C14_UnsupportedFormat ==
    (last.op = "dumpfile" /\ ~__contains__(reg["DUMPER_REGISTRY"], last.src)) =>
        /\ result.status = "ValueError"
        /\ last.key \notin DOMAIN fs

\* what the configurator registered for a format returns for a file: the
\* mapping of the instance, or the exception
Specific(h, format, filename) ==
    IF filename \notin DOMAIN fs THEN Result("FileNotFoundError", 0)
    ELSE CASE format = "json" ->
                LET r == BaseConfigurator(h, json_load(fs[filename]))
                IN [status |-> "ok", mapping |-> to_dict(r.heap, r.id)]
           [] format = "yaml" ->
                LET r == BaseConfigurator(h, yaml_safe_load(fs[filename]))
                IN [status |-> "ok", mapping |-> to_dict(r.heap, r.id)]
           [] format = "py" ->
                IF MissingInChain(filename) THEN Result("FileNotFoundError", 0)
                ELSE [status |-> "ok", mapping |-> Expected(filename)]

\* C15: AutoConfigurator.fromfile selects the configurator by the extension
\* of the file: for json, py and yaml its result has the to_dict() of the
\* result of JSONConfigurator, PyConfigurator and YAMLConfigurator.fromfile
\* on the same file, and for an extension that no configurator is
\* registered for it fails with ValueError (unsupported file extension),
\* whether the file exists or not.
C15_AutoSelectsByExtension ==
    (Loaded /\ last.tgt = "Auto") =>
        IF Suffix(last.key) \in {"json", "py", "yaml"}
        THEN LET specific == Specific(pre, Suffix(last.key), last.key)
             IN /\ result.status = specific.status
                /\ result.status = "ok" => to_dict(heap, result.id) = specific.mapping
        ELSE result = Result("ValueError", 0)

\* the mapping a file holds, as its adapter reads it
Raw(format, filename) ==
    CASE format = "json" -> json_load(fs[filename]).d
      [] format = "yaml" -> yaml_safe_load(fs[filename]).d
      [] format = "py" -> Own(filename)

\* every field that the mapping m gives a value 'env:<name>', at any depth,
\* holds the value of the environment variable
RECURSIVE EnvResolved(_, _, _)
EnvResolved(h, id, m) ==
    \A k \in DOMAIN m :
        /\ (m[k].t = "str" /\ EnvName(m[k].s) \in DOMAIN environ) =>
              __getitem__(h, id, k) = StrV(environ[EnvName(m[k].s)])
        /\ (m[k].t = "dict" /\ IsNode(__getitem__(h, id, k))) =>
              EnvResolved(h, __getitem__(h, id, k).i, m[k].d)

\* C20: loading a file (JSON, YAML or Python) in which a field has the value
\* 'env:NAME' yields an instance whose field holds the value of the
\* environment variable NAME, not the string 'env:NAME'.
C20_EnvValuesResolved ==
    (Loaded /\ result.status = "ok") =>
        EnvResolved(heap, result.id, Raw(last.src, last.key))

----------------------------------------------------------------------------
(* Properties of the registry (checked under SpecRegistry).                 *)

\* the registry of the last call, after it and before it
R == reg[last.tgt]
PreR == preReg[last.tgt]

\* C16: after register(name, impl) succeeds, contains(name) is true and
\* get(name) returns exactly impl; this holds for the direct call
\* register(name, impl) of the test and the docstring, which registers a
\* name that is free, as well as for the decorator form.
C16_RegisterThenGet ==
    last.op = "register" =>
        /\ result.status = "ok" =>
              /\ __contains__(R, last.key)
              /\ get(R, last.key) = Outcome("ok", R, last.arg.s)
        /\ last.key \notin DOMAIN PreR => result.status = "ok"

\* C17: registering a name that is already present fails with ValueError
\* and leaves the registry unchanged: the name still maps to what was
\* registered first and no entry is added or removed.
C17_DuplicateRegistrationFails ==
    (last.op = "register" /\ last.key \in DOMAIN PreR) =>
        /\ result.status = "ValueError"
        /\ R = PreR

C19_AppendOnly ==
    \A r \in DOMAIN reg :
        /\ DOMAIN preReg[r] \subseteq DOMAIN reg[r]
        /\ \A name \in DOMAIN preReg[r] :
              /\ reg[r][name] = preReg[r][name]
              /\ get(reg[r], name).ret = get(preReg[r], name).ret

\* a registration, by the decorator, of another implementation under a name
\* that is taken
C19_Witness ==
    /\ last.op = "register" /\ last.src = "decorator"
    /\ last.key \in DOMAIN PreR
    /\ PreR[last.key] # last.arg.s

----------------------------------------------------------------------------
(* Raw mappings in merge (checked under SpecRaw).                           *)

\* the fields that hold a raw mapping in the target and in the source
BothRaw == {k \in DOMAIN pre[T].f \cap DOMAIN pre[S].f :
                pre[T].f[k].t = "dictref" /\ pre[S].f[k].t = "dictref"}

\* mine with every entry of incoming put over it, one level deep
Shallow(mine, incoming) ==
    [k \in DOMAIN mine \cup DOMAIN incoming |->
        IF k \in DOMAIN incoming THEN incoming[k] ELSE mine[k]]

\* C26: when the target's field and the incoming value are both raw mappings,
\* merge keeps the target's mapping object and updates it one level deep:
\* incoming keys overwrite, new keys are added, the target's other keys are
\* kept, and an entry that is itself a mapping is replaced as a whole.
C26_RawMappingsMergeShallowly ==
    Merged =>
        \A k \in BothRaw :
            /\ heap[T].f[k] = pre[T].f[k]
            /\ heap[pre[T].f[k].i].f =
                   Shallow(pre[pre[T].f[k].i].f, pre[pre[S].f[k].i].f)

C26_Witness ==
    /\ Merged
    /\ T # S
    /\ \E k \in BothRaw :
          LET mine == pre[pre[T].f[k].i].f
              incoming == pre[pre[S].f[k].i].f
              now == heap[pre[T].f[k].i].f
          IN /\ pre[T].f[k] # pre[S].f[k]
             /\ DOMAIN mine \ DOMAIN incoming # {}
             /\ DOMAIN incoming \ DOMAIN mine # {}
             /\ \E j \in DOMAIN mine \cap DOMAIN incoming :
                   /\ IsDict(mine[j]) /\ IsDict(incoming[j])
                   /\ DOMAIN mine[j].d \ DOMAIN incoming[j].d # {}
                   /\ now[j] = incoming[j]

----------------------------------------------------------------------------
(* The singleton mode (checked under SpecSingleton).                        *)

\* mapping b merged into mapping a at every depth
RECURSIVE MergedInto(_, _)
MergedInto(a, b) ==
    [k \in DOMAIN a \cup DOMAIN b |->
        IF k \notin DOMAIN b THEN a[k]
        ELSE IF k \notin DOMAIN a THEN b[k]
        ELSE IF a[k].t = "dict" /\ b[k].t = "dict" THEN DictV(MergedInto(a[k].d, b[k].d))
        ELSE b[k]]

\* the fields of the instance when config_dict has been merged into held
Holding(held, config_dict) ==
    IF config_dict.t = "dict" THEN MergedInto(held, config_dict.d) ELSE held

\* C27: a construction with singleton=True of a class that has made one since
\* the last reset returns the same instance, with its mapping merged at every
\* depth into the fields held; when no class has made one since the last
\* reset it returns a new instance that holds its mapping only.  For
\* BaseConfigurator and each subclass.
C27_SingletonMergesUntilReset ==
    last.op = "singleton" =>
        /\ result.status = "ok"
        /\ preMade[last.tgt] # 0 =>
              /\ result.id = preMade[last.tgt]
              /\ to_dict(heap, result.id) = Holding(to_dict(pre, result.id), last.arg)
        /\ (\A cls \in Classes : preMade[cls] = 0) =>
              /\ result.id \notin 1..Len(pre)
              /\ to_dict(heap, result.id) = Holding(NoItems, last.arg)

----------------------------------------------------------------------------
(* Termination of loading (checked under SpecCycle).                        *)

\* C28: every PyConfigurator.fromfile comes to an end with a node returned,
\* or with the not-found or the invalid-reference error, also over files
\* that name themselves or each other as base files.
C28_LoadEndsInNodeOrError ==
    (Loaded /\ last.src = "py") =>
        result.status \in {"ok", "FileNotFoundError", "ValueError"}

----------------------------------------------------------------------------
(* Properties of SQLiteDatabase (checked under SpecDb).                     *)

\* the rows of table test in the tables given by their rowid, none if there
\* is no such table
Stored(tables) ==
    IF "test" \in DOMAIN tables THEN tables["test"].rows ELSE NoRows

\* the rows as a set
RowsOf(tables) ==
    {Stored(tables)[r] : r \in DOMAIN Stored(tables)}

\* how many of the rows are the row given, for every row there is
RowBag(rows) ==
    [v \in {rows[r] : r \in DOMAIN rows} |-> Cardinality({r \in DOMAIN rows : rows[r] = v})]

\* the row has the value of the condition in every column the condition
\* names (a NULL equals nothing)
Matches(row, condition) ==
    \A k \in DOMAIN condition :
        k \in DOMAIN row /\ condition[k].t # "none" /\ row[k] = condition[k]

ClaimedType(dtype) ==
    IF dtype.py
    THEN IF dtype.name \in DOMAIN PYTHON_SQLITE_TYPE_MAP
         THEN PYTHON_SQLITE_TYPE_MAP[dtype.name] ELSE "TEXT"
    ELSE IF upper(dtype.name) \in SQLITE_VALID_TYPES THEN upper(dtype.name) ELSE "TEXT"

\* C25: create_table declares every column with the type its schema entry
\* stands for, the first component of a tuple entry read like an entry that
\* is no tuple; creating a table that exists leaves the table as it is.
C25_SchemaTypes ==
    (last.op = "create_table" /\ last.ret = Cursor) =>
        IF "test" \in DOMAIN preDb.conn.view
        THEN conn.view["test"] = preDb.conn.view["test"]
        ELSE /\ Len(conn.view["test"].cols) = Len(last.arg)
             /\ \A n \in 1..Len(last.arg) :
                   /\ conn.view["test"].cols[n].name = last.arg[n][1]
                   /\ conn.view["test"].cols[n].type = ClaimedType(last.arg[n][2])

\* the stored rows the conditions select: all for None
Selected(rows, conditions) ==
    {r \in DOMAIN rows : conditions.t = "none" \/ Matches(rows[r], conditions.d)}

\* the result lists the rows the conditions select, a dict for each
Lists(result_list, rows, conditions) ==
    /\ result_list.t = "list"
    /\ Len(result_list.l) = Cardinality(Selected(rows, conditions))
    /\ \A r \in Selected(rows, conditions) :
          Cardinality({n \in 1..Len(result_list.l) : result_list.l[n] = DictV(rows[r])})
              = Cardinality({q \in Selected(rows, conditions) : rows[q] = rows[r]})

\* C22: select returns the stored rows that have the value of every
\* condition (all rows for None), one dict for each; selects returns one
\* such list for each of its conditions, in their order.
C22_SelectReturnsMatchingRows ==
    /\ (last.op = "select" /\ preDb.conn.open) =>
          Lists(last.ret, Stored(conn.view), last.arg[1])
    /\ (last.op = "selects" /\ preDb.conn.open) =>
          /\ Len(last.ret.l) = Len(last.arg)
          /\ \A n \in 1..Len(last.arg) :
                Lists(last.ret.l[n], Stored(conn.view), last.arg[n])

\* C23: a delete that succeeds removes the rows that match its condition, a
\* deletes that succeeds the rows that match one of its conditions, and both
\* leave every other row as it was.
C23_DeleteRemovesMatchingRows ==
    (last.op \in {"delete", "deletes"} /\ last.ret = Cursor) =>
        Stored(conn.view) =
            [r \in {q \in DOMAIN Stored(preDb.conn.view) :
                       ~\E n \in 1..Len(last.arg) : Matches(Stored(preDb.conn.view)[q], last.arg[n])}
                |-> Stored(preDb.conn.view)[r]]

\* the row with the columns of the record set
SetColumns(row, record) ==
    [c \in DOMAIN row |-> IF c \in DOMAIN record THEN record[c] ELSE row[c]]

\* the rows after the records are set under their conditions, pair by pair
RECURSIVE AppliedInOrder(_, _, _, _)
AppliedInOrder(rows, records, conditions, n) ==
    IF n > Len(records) \/ n > Len(conditions) THEN rows
    ELSE AppliedInOrder([r \in DOMAIN rows |->
                            IF Matches(rows[r], conditions[n])
                            THEN SetColumns(rows[r], records[n]) ELSE rows[r]],
                        records, conditions, n + 1)

C29_UpdatesAllOrNothing ==
    /\ (last.op = "updates" /\ last.src = "sqlite3.Error") => db = preDb.db
    /\ (last.op = "insert" /\ last.ret = Cursor) =>
          \A r \in DOMAIN Stored(preDb.db) :
              r \in DOMAIN Stored(db) /\ Stored(db)[r] = Stored(preDb.db)[r]
    /\ (last.op = "delete" /\ last.ret = Cursor) =>
          \A r \in DOMAIN Stored(db) :
              r \in DOMAIN Stored(preDb.db) /\ Stored(db)[r] = Stored(preDb.db)[r]
    /\ (last.op = "update" /\ last.ret = Cursor) =>
          RowsOf(db) \subseteq
              RowsOf(preDb.db) \cup
              {SetColumns(row, last.arg.records[1]) : row \in RowsOf(preDb.db)}

\* the operations that go through execute and reach it
Routed ==
    /\ last.op \in {"create_table", "drop_table", "insert", "inserts", "delete", "deletes", "update"}
    /\ preDb.conn.open
    /\ ~(last.op = "inserts" /\ last.arg = <<>>)

============================================================================
